---- MODULE Spec2Model ----
(***************************************************************************)
(* State-machine model of the NL2SQL Python sidecar (python-sidecar/).     *)
(*                                                                         *)
(* The sidecar serves /generate_sql and /repair_sql.  A request is         *)
(* received, the endpoint handler runs to completion (calling the LLM one  *)
(* or two times through HridaClient.generate_sql) and one response is      *)
(* returned.                                                               *)
(*                                                                         *)
(* Representation.  An SQL text is a record of the quantities the code     *)
(* measures on it (first keyword, length, number of "JOIN", of "(", ...);  *)
(* a question is a record of its words and of the phrases the regular      *)
(* expressions of the validators find in it.  Confidence values are kept   *)
(* in hundredths (1.0 = 100), so 0.1 * attempt is 10 * attempt.            *)
(***************************************************************************)
EXTENDS Integers, Sequences, FiniteSets, TLC

VARIABLES
    pc,              \* "idle" | "received" | "done"
    request,         \* the request being handled
    response,        \* the PythonSidecarResponse returned
    llm_calls,       \* prompts sent to the LLM while handling the request
    llm_replies,     \* what the LLM endpoint answered to each of them
    attempts,        \* (sql, confidence) of every successful generation
    raised,          \* exception that reached the endpoint's outer handler
    default_client,  \* hrida_client._default_client is not None
    \* a call of build_rag_prompt on its own
    join_hint_format, \* config.JOIN_HINT_FORMAT of the process
    rag_packet,       \* the schema_context argument
    rag_prompt,       \* the prompt returned, <<>> before the call
    \* a call of OllamaClient.generate_candidates_parallel / _sequential
    cand_call,        \* its mode, k and what the LLM answers to request i
    cand_results,     \* per request: "pending", or how it ended
    cand_return,      \* the call's progress, the order in which gather's
                      \* tasks completed, and the candidates list
    \* requests being handled at the same time
    slots,            \* per connection: stage, request, replies, response
    \* config_loader.py and what it reads
    environ,          \* os.environ: per variable name, unset or its string
    config_yaml,      \* what yaml.safe_load gives for config/config.yaml
    config_local_yaml, \* the same for config/config.local.yaml
    _config,          \* config_loader._config: None or the loaded dict
    config_calls      \* what load_config/get_config returned since the
                      \* last reset, and what the first load read

server_vars ==
    <<pc, request, response, llm_calls, llm_replies, attempts, raised,
      default_client>>

builder_vars == <<join_hint_format, rag_packet, rag_prompt>>

candidate_vars == <<cand_call, cand_results, cand_return>>

config_vars ==
    <<environ, config_yaml, config_local_yaml, _config, config_calls>>

vars == <<server_vars, builder_vars, candidate_vars, slots, config_vars>>

(***************************************************************************)
(* Bounds of the model                                                     *)
(***************************************************************************)
\* the caller-supplied attempt numbers tried: -MaxNegativeAttempt..MaxAttempt
MaxNegativeAttempt == 1
MaxAttempt == 6
AttemptValues == (-MaxNegativeAttempt)..MaxAttempt

(***************************************************************************)
(* Program constants                                                       *)
(***************************************************************************)
DefaultMaxAttempts == 3
DefaultAttempt == 1

MaxParens == 10
MaxBrackets == 5
ShortTextLen == 20
LongQueryLen == 500
SimpleQueryLen == 100
ManyJoins == 2
ManySubqueries == 1

FullConfidence == 100
JoinPenalty == 20
HavingPenalty == 10
WindowPenalty == 10
LengthPenalty == 20
SubqueryPenalty == 15
SimpleBonus == 10

RepairedFloor == 60
RepairedPenalty == 10
UnimprovedFloor == 50
UnimprovedPenalty == 20
RepairFailedFloor == 40
RepairFailedPenalty == 30
RepairSqlFloor == 50
RepairSqlPenaltyPerAttempt == 10

Max(a, b) == IF a >= b THEN a ELSE b
Min(a, b) == IF a <= b THEN a ELSE b

RECURSIVE SeqSum(_)
SeqSum(s) == IF s = <<>> THEN 0 ELSE Head(s) + SeqSum(Tail(s))

Range(s) == {s[i] : i \in 1..Len(s)}

(***************************************************************************)
(* SQL texts                                                               *)
(***************************************************************************)
Sql(first, ends_semi, len, joins, having, over, subq, parens, brackets, noise, sentinel, stmts, tables, literals, state_preds, selects_state, has_count, years) ==
    [first |-> first, ends_semi |-> ends_semi, len |-> len, joins |-> joins,
     having |-> having, over |-> over, subq |-> subq, parens |-> parens,
     brackets |-> brackets, noise |-> noise, sentinel |-> sentinel,
     stmts |-> stmts, tables |-> tables, literals |-> literals,
     state_preds |-> state_preds, selects_state |-> selects_state,
     has_count |-> has_count, years |-> years]

\* sql_generated="" of the error responses
EmptySql ==
    Sql("", FALSE, 0, 0, FALSE, FALSE, 0, 0, 0, FALSE, FALSE, 0, {}, {}, <<>>,
        FALSE, FALSE, {})

Titan == "titan financial services"
TestCorp == "test corp"

\* SELECT COUNT(*) FROM companies
SqlCount ==
    Sql("SELECT", FALSE, 30, 0, FALSE, FALSE, 0, 1, 0, FALSE, FALSE, 1,
        {"companies"}, {}, <<>>, FALSE, TRUE, {})
\* SELECT state FROM companies WHERE name = 'Titan Financial Services';
SqlTitan ==
    Sql("SELECT", TRUE, 68, 0, FALSE, FALSE, 0, 0, 0, FALSE, FALSE, 1,
        {"companies"}, {Titan}, <<>>, TRUE, FALSE, {})
\* SELECT state FROM companies
SqlNoEntity ==
    Sql("SELECT", FALSE, 27, 0, FALSE, FALSE, 0, 0, 0, FALSE, FALSE, 1,
        {"companies"}, {}, <<>>, TRUE, FALSE, {})
\* SELECT name FROM companies WHERE state = 'CA'
SqlHallucinated ==
    Sql("SELECT", FALSE, 45, 0, FALSE, FALSE, 0, 0, 0, FALSE, FALSE, 1,
        {"companies"}, {}, <<"CA">>, FALSE, FALSE, {})
\* a 600-character query: 3 JOINs, HAVING, OVER, two "(SELECT", no entity
SqlComplex ==
    Sql("SELECT", FALSE, 600, 3, TRUE, TRUE, 2, 8, 0, FALSE, FALSE, 1,
        {"companies", "company_revenue_annual"}, {}, <<>>, TRUE, TRUE, {})
\* the same query with WHERE c.name = 'Titan Financial Services'
SqlComplexTitan ==
    Sql("SELECT", FALSE, 640, 3, TRUE, TRUE, 2, 8, 0, FALSE, FALSE, 1,
        {"companies", "company_revenue_annual"}, {Titan}, <<>>, TRUE, TRUE, {})
\* INSERT INTO companies (name) VALUES ('Test Corp')
SqlInsert ==
    Sql("INSERT", FALSE, 49, 0, FALSE, FALSE, 0, 2, 0, FALSE, FALSE, 1,
        {"companies"}, {TestCorp}, <<>>, FALSE, FALSE, {})
\* SELECT 1; DROP TABLE companies
SqlStacked ==
    Sql("SELECT", FALSE, 30, 0, FALSE, FALSE, 0, 0, 0, FALSE, FALSE, 2,
        {"companies"}, {}, <<>>, FALSE, FALSE, {})
\* SELECT * FROM employees
SqlEmployees ==
    Sql("SELECT", FALSE, 23, 0, FALSE, FALSE, 0, 0, 0, FALSE, FALSE, 1,
        {"employees"}, {}, <<>>, FALSE, FALSE, {})
\* CANNOT_GENERATE
SqlSentinel ==
    Sql("CANNOT_GENERATE", FALSE, 15, 0, FALSE, FALSE, 0, 0, 0, FALSE, TRUE, 0,
        {}, {}, <<>>, FALSE, FALSE, {})

\* SELECT ((((((((((1)))))))))) FROM companies
SqlTenParens ==
    Sql("SELECT", FALSE, 43, 0, FALSE, FALSE, 0, 10, 0, FALSE, FALSE, 1,
        {"companies"}, {}, <<>>, FALSE, FALSE, {})
\* SELECT ARRAY[[[[[1]]]]] FROM companies
SqlFiveBrackets ==
    Sql("SELECT", FALSE, 38, 0, FALSE, FALSE, 0, 0, 5, FALSE, FALSE, 1,
        {"companies"}, {}, <<>>, FALSE, FALSE, {})

LlmTexts ==
    {SqlCount, SqlTitan, SqlNoEntity, SqlHallucinated, SqlComplex,
     SqlComplexTitan, SqlInsert, SqlStacked, SqlEmployees, SqlSentinel,
     SqlTenParens, SqlFiveBrackets}

\* What one POST to /api/generate can come back with.
LlmReplies ==
    [kind : {"text"}, text : LlmTexts]
    \cup [kind : {"timeout", "connection", "bad_body"}, text : {EmptySql}]

(***************************************************************************)
(* hrida_client.py                                                         *)
(***************************************************************************)
StartsWithSelect(text) == text.first = "SELECT"

IsGibberish(text) ==
    \/ text.noise
    \/ text.parens > MaxParens \/ text.brackets > MaxBrackets
    \/ text.len < ShortTextLen /\ ~StartsWithSelect(text)
    \/ text.sentinel

\* if not sql.endswith(";"): sql += ";"
EnsureSemicolon(text) ==
    IF text.ends_semi THEN text
    ELSE [text EXCEPT !.ends_semi = TRUE, !.len = @ + 1]

EstimateConfidence(sql) ==
    LET c0 == FullConfidence
        c1 == IF sql.joins > ManyJoins THEN c0 - JoinPenalty ELSE c0
        c2 == IF sql.having THEN c1 - HavingPenalty ELSE c1
        c3 == IF sql.over THEN c2 - WindowPenalty ELSE c2
        c4 == IF sql.len > LongQueryLen THEN c3 - LengthPenalty ELSE c3
        c5 == IF sql.subq > ManySubqueries THEN c4 - SubqueryPenalty ELSE c4
        c6 == IF sql.joins = 0 /\ sql.len < SimpleQueryLen
              THEN c5 + SimpleBonus ELSE c5
    IN  Max(0, Min(FullConfidence, c6))

\* Outcome of HridaClient.generate_sql: (sql, confidence), or the exception
\* it raises.
Generated(sql, confidence) ==
    [exc |-> "none", cause |-> "", sql |-> sql, confidence |-> confidence]
Raises(exc, cause) ==
    [exc |-> exc, cause |-> cause, sql |-> EmptySql, confidence |-> 0]

HridaGenerateSql(reply) ==
    CASE reply.kind = "timeout" -> Raises("HridaError", "timeout")
      [] reply.kind = "connection" -> Raises("HridaError", "api_error")
      [] reply.kind = "bad_body" -> Raises("AttributeError", "bad_body")
      [] OTHER ->
            IF IsGibberish(reply.text) THEN Raises("HridaError", "gibberish")
            ELSE IF ~StartsWithSelect(reply.text)
            THEN Raises("HridaError", "not_select")
            ELSE LET sql == EnsureSemicolon(reply.text)
                 IN  Generated(sql, EstimateConfidence(sql))

(***************************************************************************)
(* Questions                                                               *)
(***************************************************************************)
\* words:        extract_keywords(question)
\* patterns:     the QUERY_PATTERNS keywords that are substrings of the
\*               lower-cased question
\* sem_patterns: the regular expressions of classify_query_intent that match
\* companies:    extract_company_names(question), lower-cased
\* states:       extract_state_codes(question) and the state names, upper-cased
\* years:        extract_years(question)
Question(text, words, patterns, sem_patterns, companies, states, years) ==
    [text |-> text, words |-> words, patterns |-> patterns,
     sem_patterns |-> sem_patterns, companies |-> companies,
     states |-> states, years |-> years]

QCount ==
    Question("How many companies are in the database?",
             {"how", "many", "companies", "are", "in", "the", "database"},
             {"how many"}, {"count"}, <<>>, {"IN"}, {})
QTitan ==
    Question("Which state is Titan Financial Services in?",
             {"which", "state", "is", "titan", "financial", "services", "in"},
             {}, {"lookup_state"}, <<Titan>>, {"IN"}, {})
QInsert ==
    Question("Insert a new company called Test Corp",
             {"insert", "a", "new", "company", "called", "test", "corp"},
             {}, {"list"}, <<TestCorp>>, {}, {})
QTrend ==
    Question("What is the revenue growth trend?",
             {"what", "is", "the", "revenue", "growth", "trend"},
             {"trend", "growth"}, {}, <<>>, {}, {})
QZzz ==
    Question("zzz", {"zzz"}, {}, {}, <<>>, {}, {})

Questions == {QCount, QTitan, QInsert, QTrend, QZzz}

(***************************************************************************)
(* config.py: schema and keyword tables                                    *)
(***************************************************************************)
\* list(MCPTEST_SCHEMA.keys())
MCPTEST_SCHEMA == <<"companies", "company_revenue_annual">>

TABLE_KEYWORDS ==
    [t \in Range(MCPTEST_SCHEMA) |->
        IF t = "companies"
        THEN {"company", "companies", "business", "businesses", "firm",
              "firms", "name"}
        ELSE {"revenue", "income", "earnings", "money", "sales", "financial",
              "year", "annual"}]

\* one keyword set per column
COLUMN_KEYWORDS ==
    [t \in Range(MCPTEST_SCHEMA) |->
        IF t = "companies"
        THEN << {"name", "company", "business"},
                {"founded", "founding", "established", "started", "year",
                 "age", "old", "oldest", "newest"},
                {"state", "location", "where", "located", "region"} >>
        ELSE << {"year", "when", "date", "time"},
                {"revenue", "income", "earnings", "money", "sales",
                 "financial", "top", "highest", "lowest"} >>]

\* QUERY_PATTERNS.items(), in insertion order
QUERY_PATTERNS ==
    << [intent |-> "count",
        keywords |-> {"how many", "count", "number of", "total"}],
       [intent |-> "list",
        keywords |-> {"show", "list", "display", "get", "find"}],
       [intent |-> "aggregate",
        keywords |-> {"average", "avg", "sum", "total", "max", "min"}],
       [intent |-> "compare",
        keywords |-> {"compare", "difference", "between", "vs"}],
       [intent |-> "trend",
        keywords |-> {"trend", "over time", "growth", "change",
                      "year over year", "yoy"}],
       [intent |-> "detail",
        keywords |-> {"information about", "details", "tell me about"}] >>

(***************************************************************************)
(* keyword_filter.py                                                       *)
(***************************************************************************)
\* the question words w with  w in table_name or table_name in w
TableNameMatches ==
    [t \in Range(MCPTEST_SCHEMA) |->
        IF t = "companies" THEN {"a", "companies"}
        ELSE {"a", "company", "revenue"}]

\* the question words that are substrings of the table's description
DescriptionMatches ==
    [t \in Range(MCPTEST_SCHEMA) |->
        IF t = "companies" THEN {"a", "companies", "in", "state", "year"}
        ELSE {"a", "company", "in", "revenue", "year"}]

\* twice the score filter_tables gives the table (description matches count
\* 0.5 in the code)
TableScore(question, t) ==
    LET w == question.words
        cols == COLUMN_KEYWORDS[t]
    IN  4 * Cardinality(w \cap TABLE_KEYWORDS[t])
        + 2 * SeqSum([i \in 1..Len(cols) |-> Cardinality(w \cap cols[i])])
        + 6 * Cardinality(w \cap TableNameMatches[t])
        + Cardinality(w \cap DescriptionMatches[t])

\* sorted(..., reverse=True) is stable: equal scores keep the schema order
RECURSIVE SortByScore(_, _)
SortByScore(question, tables) ==
    IF tables = <<>> THEN <<>>
    ELSE LET best == CHOOSE i \in 1..Len(tables) :
                        \A j \in 1..Len(tables) :
                            \/ TableScore(question, tables[i])
                                 > TableScore(question, tables[j])
                            \/ /\ TableScore(question, tables[i])
                                    = TableScore(question, tables[j])
                               /\ i <= j
             rest == [k \in 1..(Len(tables) - 1) |->
                        IF k < best THEN tables[k] ELSE tables[k + 1]]
         IN  <<tables[best]>> \o SortByScore(question, rest)

FilterTables(question) ==
    LET sorted == SortByScore(question, MCPTEST_SCHEMA)
        selected == SelectSeq(sorted, LAMBDA t : TableScore(question, t) > 0)
    IN  IF Len(selected) = 0 THEN MCPTEST_SCHEMA ELSE selected

BuildFilteredSchema(selected_tables) ==
    SelectSeq(selected_tables, LAMBDA t : t \in Range(MCPTEST_SCHEMA))

RECURSIVE FirstPattern(_, _)
FirstPattern(question, patterns) ==
    IF patterns = <<>> THEN "list"
    ELSE IF Head(patterns).keywords \cap question.patterns # {}
    THEN Head(patterns).intent
    ELSE FirstPattern(question, Tail(patterns))

ClassifyIntent(question) == FirstPattern(question, QUERY_PATTERNS)

(***************************************************************************)
(* semantic_validator.py                                                   *)
(***************************************************************************)
SemanticIntentOrder ==
    <<"lookup_state", "count", "rank", "compare", "aggregate", "list">>

ClassifyQueryIntent(question) ==
    LET hits == {i \in 1..Len(SemanticIntentOrder) :
                    SemanticIntentOrder[i] \in question.sem_patterns}
    IN  IF hits # {}
        THEN SemanticIntentOrder[CHOOSE i \in hits : \A j \in hits : i <= j]
        ELSE IF question.companies # <<>> THEN "lookup_by_name"
        ELSE "general"

Issue(code, severity) == [code |-> code, severity |-> severity]

\* the issues list of validate_semantic_match
SemanticIssues(question, sql) ==
    LET missing == SelectSeq(question.companies,
                             LAMBDA c : c \notin sql.literals)
        intent == ClassifyQueryIntent(question)
        halluc == SelectSeq(sql.state_preds,
                            LAMBDA s : s \notin question.states)
        years == {y \in sql.years : y \notin question.years
                                    /\ question.years # {}}
    IN  [i \in 1..Len(missing) |-> Issue("MISSING_ENTITY", "error")]
        \o (IF intent = "lookup_state" /\ ~sql.selects_state
            THEN <<Issue("WRONG_SELECT", "warning")>> ELSE <<>>)
        \o (IF intent = "count" /\ ~sql.has_count
            THEN <<Issue("MISSING_AGGREGATION", "warning")>> ELSE <<>>)
        \o [i \in 1..Len(halluc) |-> Issue("HALLUCINATED_VALUE", "error")]
        \o [i \in 1..Cardinality(years) |-> Issue("WRONG_YEAR", "warning")]

ErrorIssues(issues) == SelectSeq(issues, LAMBDA i : i.severity = "error")

\* is_valid of validate_semantic_match
SemanticValid(question, sql) ==
    ErrorIssues(SemanticIssues(question, sql)) = <<>>

(***************************************************************************)
(* Requests                                                                *)
(***************************************************************************)
\* schema_context is None
NoContext ==
    [present |-> FALSE, database_id |-> "", tables |-> <<>>,
     join_hints |-> <<>>, join_paths |-> <<>>]

\* A schema-context packet as the caller posts it.  tables holds the
\* table_name of each entry; a join hint is {"from": ..., "to": ...} with each
\* end kept as the parts of the dotted name; a join path names the tables it
\* goes through.
Packet(database_id, tables, join_hints, join_paths) ==
    [present |-> TRUE, database_id |-> database_id, tables |-> tables,
     join_hints |-> join_hints, join_paths |-> join_paths]

JoinHint(from, to) == [from |-> from, to |-> to]
JoinPath(path, tables) == [path |-> path, tables |-> tables]

\* public.sales_orders.customer_id -> public.customers.customer_id
HintOrdersCustomers ==
    JoinHint(<<"public", "sales_orders", "customer_id">>,
             <<"public", "customers", "customer_id">>)
\* sales_orders -> customers
PathOrdersCustomers ==
    JoinPath("sales_orders -> customers", <<"sales_orders", "customers">>)

PacketCompanies == Packet("mcptest", <<"companies">>, <<>>, <<>>)
PacketErp ==
    Packet("enterprise_erp", <<"sales_orders", "customers">>, <<>>, <<>>)
\* the same tables, with the FK edge between them as a join hint and a path
PacketErpJoins ==
    Packet("enterprise_erp", <<"sales_orders", "customers">>,
           <<HintOrdersCustomers>>, <<PathOrdersCustomers>>)
\* "tables": []
PacketEmpty == Packet("enterprise_erp", <<>>, <<>>, <<>>)

SchemaContexts ==
    {NoContext, PacketCompanies, PacketErp, PacketErpJoins, PacketEmpty}

\* request.schema_context.dict() of /generate_sql: the SchemaContext model
\* declares query_id, database_id, question, tables, fk_edges and modules;
\* keys it does not declare are not kept, so .get("join_hints", []) and
\* .get("join_paths", []) find nothing
SchemaContextDict(schema_context) ==
    [schema_context EXCEPT !.join_hints = <<>>, !.join_paths = <<>>]

DatabaseIds == {"mcptest", "enterprise_erp"}

\* postgres_error carries no minimal_whitelist
NoWhitelist ==
    [present |-> FALSE, resolved_table |-> "", whitelist |-> <<>>,
     neighbor_tables |-> <<>>]

\* minimal_whitelist: the table the failing SQL referenced, the columns of
\* that table and of its FK neighbours (whitelist is keyed by table name)
MinimalWhitelist(resolved_table, whitelist, neighbor_tables) ==
    [present |-> TRUE, resolved_table |-> resolved_table,
     whitelist |-> whitelist, neighbor_tables |-> neighbor_tables]

WhitelistCustomers ==
    MinimalWhitelist("customers",
                     [t \in {"customers", "sales_orders"} |->
                        IF t = "customers" THEN <<"customer_id", "name">>
                        ELSE <<"order_id", "customer_id">>],
                     <<"sales_orders">>)
\* the caller resolved the table but found no columns for it
WhitelistNoColumns ==
    MinimalWhitelist("customers", [t \in {"customers"} |-> <<>>], <<>>)

\* postgres_error is None
NoPostgresError ==
    [present |-> FALSE, sqlstate |-> "", message |-> "",
     minimal_whitelist |-> NoWhitelist, column_candidates |-> <<>>]

PostgresError(sqlstate, minimal_whitelist, column_candidates) ==
    [present |-> TRUE, sqlstate |-> sqlstate, message |-> "planner error",
     minimal_whitelist |-> minimal_whitelist,
     column_candidates |-> column_candidates]

RepairableSqlstates == {"42P01", "42703", "42601", "42P10", "42804", "42883"}

PostgresErrors ==
    {NoPostgresError}
    \cup {PostgresError(sqlstate, NoWhitelist, <<>>) :
            sqlstate \in RepairableSqlstates \cup {"42501"}}
    \cup {PostgresError("42703", WhitelistCustomers, <<>>),
          PostgresError("42703", WhitelistNoColumns, <<>>),
          PostgresError("42703", NoWhitelist, <<"customer_name">>)}

ValidatorIssueLists == {<<>>, <<[code |-> "UNKNOWN_TABLE", severity |-> "error"]>>}
SemanticIssueLists == {<<>>, <<[code |-> "MISSING_ENTITY", severity |-> "error"]>>}
PreviousSqls == {EnsureSemicolon(SqlNoEntity), EnsureSemicolon(SqlComplex)}

GenerateRequests ==
    [endpoint : {"generate_sql"}, question : Questions,
     database_id : DatabaseIds, schema_context : SchemaContexts]

RepairRequests ==
    [endpoint : {"repair_sql"}, question : Questions,
     database_id : DatabaseIds, schema_context : SchemaContexts,
     previous_sql : PreviousSqls, attempt : AttemptValues,
     max_attempts : {DefaultMaxAttempts},
     validator_issues : ValidatorIssueLists,
     postgres_error : PostgresErrors,
     semantic_issues : SemanticIssueLists]

NoRequest == [endpoint |-> "none"]

(***************************************************************************)
(* config.py: prompt builders.  A prompt is the sequence of the pieces     *)
(* that are concatenated: the base, "\n\n" separators and delta blocks.    *)
(***************************************************************************)
Separator == [kind |-> "separator"]

BuildHridaPrompt(question, schema) ==
    << [kind |-> "base", template |-> "HRIDA_BASE_PROMPT",
        database_id |-> "mcptest", schema |-> schema,
        question |-> question.text] >>

\* os.getenv("JOIN_HINT_FORMAT", "edges"), read once when config is imported
JOIN_HINT_FORMAT == "edges"
JoinHintFormats == {"edges", "paths", "both", "none"}

\* filtered_hints[:15] and filtered_paths[:3]
MaxHintLines == 15
MaxPathLines == 3

\* table_from_hint: parts = hint_str.split("."); parts[1] when there are at
\* least two parts, else parts[0] (Python indices)
TableFromHint(hint_end) ==
    IF Len(hint_end) >= 2 THEN hint_end[2] ELSE hint_end[1]

FilteredHints(schema_context) ==
    LET selected_tables == Range(schema_context.tables)
    IN  SelectSeq(schema_context.join_hints,
                  LAMBDA h : /\ TableFromHint(h.from) \in selected_tables
                             /\ TableFromHint(h.to) \in selected_tables)

FilteredPaths(schema_context) ==
    LET selected_tables == Range(schema_context.tables)
    IN  SelectSeq(schema_context.join_paths,
                  LAMBDA p : Range(p.tables) \subseteq selected_tables)

FirstN(s, n) == SubSeq(s, 1, Min(Len(s), n))

\* the text that fills {join_hints_block}
JoinHintsBlock(format, schema_context) ==
    LET filtered_hints == FilteredHints(schema_context)
        no_hints == [text |-> "No join hints available.", hints |-> <<>>]
    IN  IF format = "none"
        THEN [text |-> "Use FK relationships from schema to determine JOINs.",
              hints |-> <<>>]
        ELSE IF format \in {"edges", "both"} /\ filtered_hints # <<>>
        THEN [text |-> "hint lines",
              hints |-> FirstN(filtered_hints, MaxHintLines)]
        ELSE no_hints

\* the text that fills {join_paths_block}
JoinPathsBlock(format, schema_context) ==
    IF format \in {"paths", "both"}
    THEN FirstN(FilteredPaths(schema_context), MaxPathLines)
    ELSE <<>>

\* build_rag_prompt under a given JOIN_HINT_FORMAT.  The schema block lists
\* the packet's tables sorted by (module, table_name), whatever their order
\* in the packet.
BuildRagPromptAs(format, question, schema_context) ==
    << [kind |-> "base", template |-> "HRIDA_RAG_PROMPT",
        database_id |-> schema_context.database_id,
        schema |-> Range(schema_context.tables),
        join_hints_block |-> JoinHintsBlock(format, schema_context),
        join_paths_block |-> JoinPathsBlock(format, schema_context),
        question |-> question.text] >>

BuildRagPrompt(question, schema_context) ==
    BuildRagPromptAs(JOIN_HINT_FORMAT, question, schema_context)

SQLSTATE_HINTS ==
    {"42P01", "42703", "42601", "42P10", "42804", "42883", "42501"}

\* SQLSTATE_HINTS.get(sqlstate, <generic>).format(allowed_tables=...)
SqlstateHint(sqlstate, allowed_tables) ==
    [hint |-> IF sqlstate \in SQLSTATE_HINTS THEN sqlstate ELSE "generic",
     allowed_tables |-> IF sqlstate = "42P01" THEN allowed_tables ELSE <<>>]

SemanticDelta(semantic_issues, previous_sql) ==
    [kind |-> "delta", template |-> "REPAIR_DELTA_SEMANTIC",
     issues |-> semantic_issues, previous_sql |-> previous_sql]

ValidatorDelta(validator_issues, allowed_tables) ==
    [kind |-> "delta", template |-> "REPAIR_DELTA_VALIDATOR",
     issues |-> validator_issues, allowed_tables |-> allowed_tables]

\* whitelist.get(table, [])
WhitelistColumns(whitelist, table) ==
    IF table \in DOMAIN whitelist THEN whitelist[table] ELSE <<>>

NoSection == [template |-> ""]

\* the text that fills {column_candidates_section} in build_rag_repair_prompt
ColumnCandidatesSection(postgres_error) ==
    LET minimal == postgres_error.minimal_whitelist
        primary_cols_list ==
            IF minimal.resolved_table # ""
            THEN WhitelistColumns(minimal.whitelist, minimal.resolved_table)
            ELSE <<>>
    IN  IF postgres_error.sqlstate = "42703" /\ minimal.present
        THEN IF minimal.resolved_table # "" /\ primary_cols_list # <<>>
             THEN [template |-> "REPAIR_DELTA_MINIMAL_WHITELIST",
                   resolved_table |-> minimal.resolved_table,
                   primary_columns |-> primary_cols_list,
                   neighbors |->
                       SelectSeq(minimal.neighbor_tables,
                                 LAMBDA n :
                                    WhitelistColumns(minimal.whitelist, n)
                                        # <<>>)]
             ELSE NoSection
        ELSE IF postgres_error.column_candidates # <<>>
        THEN [template |-> "REPAIR_DELTA_COLUMN_CANDIDATES",
              candidates |-> postgres_error.column_candidates]
        ELSE NoSection

PostgresDelta(postgres_error, previous_sql, allowed_tables) ==
    [kind |-> "delta", template |-> "REPAIR_DELTA_POSTGRES",
     sqlstate |-> postgres_error.sqlstate,
     message |-> postgres_error.message,
     previous_sql |-> previous_sql,
     sqlstate_hint |-> SqlstateHint(postgres_error.sqlstate, allowed_tables),
     column_candidates_section |-> ColumnCandidatesSection(postgres_error)]

\* "\n\n".join(delta_blocks)
RECURSIVE JoinDeltas(_)
JoinDeltas(blocks) ==
    IF Len(blocks) <= 1 THEN blocks
    ELSE <<Head(blocks), Separator>> \o JoinDeltas(Tail(blocks))

\* A builder returns the prompt, or raises.
Built(prompt) == [exc |-> "none", prompt |-> prompt]
BuildFails(exc) == [exc |-> exc, prompt |-> <<>>]

\* variant of SemanticAndValidatorDeltas that appends the validator delta
\* before the semantic delta
ValidatorThenSemanticDeltas(previous_sql, validator_issues, semantic_issues, allowed_tables) ==
    (IF validator_issues # <<>>
     THEN <<ValidatorDelta(validator_issues, allowed_tables)>> ELSE <<>>)
    \o (IF semantic_issues # <<>>
        THEN <<SemanticDelta(semantic_issues, previous_sql)>> ELSE <<>>)

SemanticAndValidatorDeltas(previous_sql, validator_issues, semantic_issues, allowed_tables) ==
    (IF semantic_issues # <<>>
     THEN <<SemanticDelta(semantic_issues, previous_sql)>> ELSE <<>>)
    \o (IF validator_issues # <<>>
        THEN <<ValidatorDelta(validator_issues, allowed_tables)>> ELSE <<>>)

\* REPAIR_DELTA_POSTGRES has a {column_candidates_section} field that
\* build_repair_prompt does not pass to str.format(): KeyError.
BuildRepairPrompt(question, previous_sql, schema, validator_issues, postgres_error, semantic_issues, allowed_tables) ==
    IF postgres_error.present
    THEN BuildFails("KeyError")
    ELSE Built(BuildHridaPrompt(question, schema) \o <<Separator>>
               \o JoinDeltas(SemanticAndValidatorDeltas(
                      previous_sql, validator_issues, semantic_issues,
                      allowed_tables)))

BuildRagRepairPrompt(question, previous_sql, schema_context, validator_issues, postgres_error, semantic_issues) ==
    LET allowed_tables == schema_context.tables
    IN  Built(BuildRagPrompt(question, schema_context) \o <<Separator>>
              \o JoinDeltas(
                    SemanticAndValidatorDeltas(
                        previous_sql, validator_issues, semantic_issues,
                        allowed_tables)
                    \o (IF postgres_error.present
                        THEN <<PostgresDelta(postgres_error, previous_sql,
                                             allowed_tables)>>
                        ELSE <<>>)))

(***************************************************************************)
(* app.py: responses                                                       *)
(***************************************************************************)
\* error=None
NoError == [type |-> "none", recoverable |-> FALSE]
ErrorResponse(type, recoverable) == [type |-> type, recoverable |-> recoverable]

PythonSidecarResponse(sql, confidence, tables, intent, notes, error) ==
    [sql_generated |-> sql, confidence_score |-> confidence,
     tables_selected |-> tables, intent |-> intent, notes |-> notes,
     error |-> error]

NoResponse == PythonSidecarResponse(EmptySql, 0, <<>>, "", "", NoError)

\* a handler whose client sends every generation request a second time
HandledWithRetry(resp, calls, gens, exc, client) ==
    [response |-> resp, llm_calls |-> calls \o calls, attempts |-> gens,
     raised |-> exc, client |-> client]

\* What running a handler leaves behind: the response, the prompts sent to
\* the LLM, the successful generations, the exception caught by the outer
\* "except Exception" and whether get_hrida_client() was reached.
Handled(resp, calls, gens, exc, client) ==
    [response |-> resp, llm_calls |-> calls, attempts |-> gens,
     raised |-> exc, client |-> client]

Attempt(g) == [sql |-> g.sql, confidence |-> g.confidence]

\* the early return for a database other than mcptest without schema_context
UnsupportedDatabase ==
    Handled(PythonSidecarResponse(EmptySql, 0, <<>>, "", "",
                                  ErrorResponse("validation", FALSE)),
            <<>>, <<>>, "none", FALSE)

\* except HridaError of /generate_sql
GenerationError(selected_tables, intent) ==
    PythonSidecarResponse(EmptySql, 0, selected_tables, intent, "",
                          ErrorResponse("generation", TRUE))

\* except HridaError of /repair_sql
RepairGenerationError(selected_tables, intent, attempt, max_attempts) ==
    PythonSidecarResponse(EmptySql, 0, selected_tables, intent,
                          "repair_attempt_failed",
                          ErrorResponse("generation", attempt < max_attempts))

\* variant of InternalError in which the outer handler marks the error as
\* retryable, as the HridaError handlers do
InternalErrorMarkedRecoverable ==
    PythonSidecarResponse(EmptySql, 0, <<>>, "", "",
                          ErrorResponse("internal", TRUE))

\* except Exception of both endpoints
InternalError ==
    PythonSidecarResponse(EmptySql, 0, <<>>, "", "",
                          ErrorResponse("internal", FALSE))

(***************************************************************************)
(* app.py: /generate_sql                                                   *)
(***************************************************************************)
\* the branch "if not semantic_valid" of generate_sql, legacy flow
SemanticRepair(question, selected_tables, intent, filtered_schema, prompt, g1, issues1, reply2) ==
    LET errors1 == ErrorIssues(issues1)
        built == BuildRepairPrompt(question, g1.sql, filtered_schema, <<>>,
                                   NoPostgresError, issues1, MCPTEST_SCHEMA)
        g2 == HridaGenerateSql(reply2)
        calls == <<prompt, built.prompt>>
        errors2 == ErrorIssues(SemanticIssues(question, g2.sql))
    IN  IF built.exc # "none"
        THEN Handled(InternalError, <<prompt>>, <<Attempt(g1)>>, built.exc,
                     TRUE)
        ELSE IF g2.exc = "HridaError"
        THEN Handled(PythonSidecarResponse(
                        g1.sql,
                        Max(RepairFailedFloor,
                            g1.confidence - RepairFailedPenalty),
                        selected_tables, intent, "repair_failed", NoError),
                     calls, <<Attempt(g1)>>, "none", TRUE)
        ELSE IF g2.exc # "none"
        THEN Handled(InternalError, calls, <<Attempt(g1)>>, g2.exc, TRUE)
        ELSE IF errors2 = <<>> \/ Len(errors2) < Len(errors1)
        THEN Handled(PythonSidecarResponse(
                        g2.sql,
                        Max(RepairedFloor, g2.confidence - RepairedPenalty),
                        selected_tables, intent, "auto_repaired", NoError),
                     calls, <<Attempt(g1), Attempt(g2)>>, "none", TRUE)
        ELSE Handled(PythonSidecarResponse(
                        g1.sql,
                        Max(UnimprovedFloor,
                            g1.confidence - UnimprovedPenalty),
                        selected_tables, intent, "repair_attempted", NoError),
                     calls, <<Attempt(g1), Attempt(g2)>>, "none", TRUE)

GenerateSqlEndpoint(req, reply1, reply2) ==
    LET question == req.question
        use_rag == req.schema_context.present
        selected_tables == IF use_rag THEN req.schema_context.tables
                           ELSE FilterTables(question)
        intent == ClassifyIntent(question)
        filtered_schema == IF use_rag THEN req.schema_context.tables
                           ELSE BuildFilteredSchema(selected_tables)
        prompt == IF use_rag
                  THEN BuildRagPrompt(question,
                                      SchemaContextDict(req.schema_context))
                  ELSE BuildHridaPrompt(question, filtered_schema)
        g1 == HridaGenerateSql(reply1)
        issues1 == SemanticIssues(question, g1.sql)
    IN  IF ~use_rag /\ req.database_id # "mcptest"
        THEN UnsupportedDatabase
        ELSE IF g1.exc = "HridaError"
        THEN Handled(GenerationError(selected_tables, intent), <<prompt>>,
                     <<>>, "none", TRUE)
        ELSE IF g1.exc # "none"
        THEN Handled(InternalError, <<prompt>>, <<>>, g1.exc, TRUE)
        ELSE IF ErrorIssues(issues1) = <<>>
        THEN Handled(PythonSidecarResponse(
                        g1.sql, g1.confidence, selected_tables, intent,
                        IF issues1 # <<>> THEN "warnings" ELSE "", NoError),
                     <<prompt>>, <<Attempt(g1)>>, "none", TRUE)
        ELSE IF use_rag
        \* allowed_tables=list(schema.keys()): "schema" is only bound in the
        \* legacy branch
        THEN Handled(InternalError, <<prompt>>, <<Attempt(g1)>>,
                     "UnboundLocalError", TRUE)
        ELSE SemanticRepair(question, selected_tables, intent,
                            filtered_schema, prompt, g1, issues1, reply2)

(***************************************************************************)
(* app.py: /repair_sql                                                     *)
(***************************************************************************)
RepairSqlEndpoint(req, reply) ==
    LET question == req.question
        use_rag == req.schema_context.present
        selected_tables == IF use_rag THEN req.schema_context.tables
                           ELSE FilterTables(question)
        intent == ClassifyIntent(question)
        built == IF use_rag
                 THEN BuildRagRepairPrompt(
                        question, req.previous_sql, req.schema_context,
                        req.validator_issues, req.postgres_error,
                        req.semantic_issues)
                 ELSE BuildRepairPrompt(
                        question, req.previous_sql,
                        BuildFilteredSchema(selected_tables),
                        req.validator_issues, req.postgres_error,
                        req.semantic_issues, MCPTEST_SCHEMA)
        g == HridaGenerateSql(reply)
    IN  IF ~use_rag /\ req.database_id # "mcptest"
        THEN UnsupportedDatabase
        ELSE IF built.exc # "none"
        THEN Handled(InternalError, <<>>, <<>>, built.exc, FALSE)
        ELSE IF g.exc = "HridaError"
        THEN Handled(RepairGenerationError(selected_tables, intent,
                                           req.attempt, req.max_attempts),
                     <<built.prompt>>, <<>>, "none", TRUE)
        ELSE IF g.exc # "none"
        THEN Handled(InternalError, <<built.prompt>>, <<>>, g.exc, TRUE)
        ELSE Handled(PythonSidecarResponse(
                        g.sql,
                        Max(RepairSqlFloor,
                            g.confidence
                              - RepairSqlPenaltyPerAttempt * req.attempt),
                        selected_tables, intent, "repaired", NoError),
                     <<built.prompt>>, <<Attempt(g)>>, "none", TRUE)

(***************************************************************************)
(* The server                                                              *)
(***************************************************************************)
\* nothing has been handed to build_rag_prompt
BuilderIdle ==
    /\ join_hint_format = JOIN_HINT_FORMAT
    /\ rag_packet = NoContext
    /\ rag_prompt = <<>>

\* no multi-candidate generation has been asked for
CandidatesIdle ==
    /\ cand_call = [mode |-> "none", k |-> 0, replies |-> <<>>]
    /\ cand_results = <<>>
    /\ cand_return = [status |-> "idle", candidates |-> <<>>,
                      seen_normalized |-> {}, settled |-> <<>>]

\* config_loader has not been called: no variable of its own is set in the
\* environment, there is no config directory, and nothing is cached
EnvNames ==
    {"OLLAMA_MODEL", "OLLAMA_BASE_URL", "OLLAMA_TIMEOUT", "OLLAMA_NUM_CTX",
     "SQL_SYSTEM_PROMPT", "SEQUENTIAL_CANDIDATES", "JOIN_HINT_FORMAT",
     "LOG_LEVEL", "PORT"}
Unset == [set |-> FALSE]
EmptyEnviron == [name \in EnvNames |-> Unset]
NoFile == [kind |-> "missing"]
None == [kind |-> "none"]
NoCalls == [returned |-> <<>>, read |-> None, loaded |-> None, created |-> 0]
ConfigIdle ==
    /\ environ = EmptyEnviron
    /\ config_yaml = NoFile
    /\ config_local_yaml = NoFile
    /\ _config = None
    /\ config_calls = NoCalls

\* the variables the endpoints do not touch
OnlyServer == UNCHANGED <<builder_vars, candidate_vars, slots, config_vars>>

Init ==
    /\ BuilderIdle
    /\ ConfigIdle
    /\ CandidatesIdle
    /\ slots = <<>>
    /\ pc = "idle"
    /\ request = NoRequest
    /\ response = NoResponse
    /\ llm_calls = <<>>
    /\ llm_replies = <<>>
    /\ attempts = <<>>
    /\ raised = "none"
    /\ default_client = FALSE

\* a POST arrives and its body is parsed
Receive ==
    /\ pc = "idle"
    /\ \E req \in GenerateRequests \cup RepairRequests : request' = req
    /\ pc' = "received"
    /\ UNCHANGED <<response, llm_calls, llm_replies, attempts, raised,
                   default_client>>
    /\ OnlyServer

\* the handler ran to its return statement; replies are the answers the LLM
\* endpoint holds ready, of which the handler consumed one per call it made
Finish(h, replies) ==
    /\ response' = h.response
    /\ llm_calls' = h.llm_calls
    /\ llm_replies' = SubSeq(replies, 1, Len(h.llm_calls))
    /\ attempts' = h.attempts
    /\ raised' = h.raised
    /\ default_client' = (default_client \/ h.client)
    /\ pc' = "done"
    /\ UNCHANGED request
    /\ OnlyServer

GenerateSql ==
    /\ pc = "received"
    /\ request.endpoint = "generate_sql"
    /\ \E reply1, reply2 \in LlmReplies :
            Finish(GenerateSqlEndpoint(request, reply1, reply2),
                   <<reply1, reply2>>)

RepairSql ==
    /\ pc = "received"
    /\ request.endpoint = "repair_sql"
    /\ \E reply \in LlmReplies :
            Finish(RepairSqlEndpoint(request, reply), <<reply>>)

\* the response has been sent; nothing of the request is kept
Respond ==
    /\ pc = "done"
    /\ pc' = "idle"
    /\ request' = NoRequest
    /\ response' = NoResponse
    /\ llm_calls' = <<>>
    /\ llm_replies' = <<>>
    /\ attempts' = <<>>
    /\ raised' = "none"
    /\ UNCHANGED default_client
    /\ OnlyServer

Next == Receive \/ GenerateSql \/ RepairSql \/ Respond

Spec == Init /\ [][Next]_vars

(***************************************************************************)
(* config.py: build_rag_prompt called on its own, under each                *)
(* JOIN_HINT_FORMAT, on packets with many join hints                        *)
(***************************************************************************)
\* the longest join_hints list tried
MaxHints == 17

\* public.sales_orders.product_id -> public.products.product_id
HintOrdersProducts ==
    JoinHint(<<"public", "sales_orders", "product_id">>,
             <<"public", "products", "product_id">>)
\* sales_orders.customer_id -> customers.customer_id
HintOrdersCustomersShort ==
    JoinHint(<<"sales_orders", "customer_id">>, <<"customers", "customer_id">>)
\* sales_orders.product_id -> products.product_id
HintOrdersProductsShort ==
    JoinHint(<<"sales_orders", "product_id">>, <<"products", "product_id">>)

JoinHints ==
    {HintOrdersCustomers, HintOrdersProducts, HintOrdersCustomersShort,
     HintOrdersProductsShort}

\* the lists a, b, a, b, ... of every length up to MaxHints
JoinHintLists ==
    {[i \in 1..n |-> IF i % 2 = 1 THEN a ELSE b] :
        n \in 0..MaxHints, a \in JoinHints, b \in JoinHints}

PathOrdersProducts ==
    JoinPath("sales_orders -> products", <<"sales_orders", "products">>)

JoinPathLists ==
    {<<>>, <<PathOrdersCustomers, PathOrdersProducts>>}

PacketTables ==
    {<<"customers">>, <<"sales_orders", "customers">>,
     <<"sales_orders", "customers", "products">>}

RagPackets ==
    {Packet("enterprise_erp", tables, join_hints, join_paths) :
        tables \in PacketTables, join_hints \in JoinHintLists,
        join_paths \in JoinPathLists}

\* the server is not taking requests
ServerIdle ==
    /\ pc = "idle"
    /\ request = NoRequest
    /\ response = NoResponse
    /\ llm_calls = <<>>
    /\ llm_replies = <<>>
    /\ attempts = <<>>
    /\ raised = "none"
    /\ default_client = FALSE

PromptInit ==
    /\ ServerIdle
    /\ ConfigIdle
    /\ CandidatesIdle
    /\ slots = <<>>
    /\ join_hint_format \in JoinHintFormats
    /\ rag_packet \in RagPackets
    /\ rag_prompt = <<>>

\* build_rag_prompt(question, schema_context)
CallBuildRagPrompt ==
    /\ rag_prompt = <<>>
    /\ rag_prompt' = BuildRagPromptAs(join_hint_format, QCount, rag_packet)
    /\ UNCHANGED <<join_hint_format, rag_packet, server_vars,
                   candidate_vars, slots, config_vars>>

PromptNext == CallBuildRagPrompt

PromptSpec == PromptInit /\ [][PromptNext]_vars

(***************************************************************************)
(* Properties                                                              *)
(***************************************************************************)
Answered(endpoint) == pc = "done" /\ request.endpoint = endpoint

Succeeded == pc = "done" /\ response.error = NoError

UsesRag == request.schema_context.present

\* the request is not turned away for its database_id
SupportedDatabase == UsesRag \/ request.database_id = "mcptest"

DeltasOf(prompt, template) ==
    {i \in 1..Len(prompt) :
        prompt[i].kind = "delta" /\ prompt[i].template = template}

\* the first generated SQL has an error-severity semantic issue
FirstSqlInvalid ==
    /\ Answered("generate_sql")
    /\ attempts # <<>>
    /\ ~SemanticValid(request.question, attempts[1].sql)

\* C1: every response of /generate_sql or /repair_sql that carries no error
\* holds SQL that is one top-level SELECT statement over tables of the
\* response's tables_selected only.
C1_SuccessIsSingleSelectOverSelectedTables ==
    Succeeded =>
        /\ StartsWithSelect(response.sql_generated)
        /\ response.sql_generated.stmts = 1
        /\ response.sql_generated.tables
              \subseteq Range(response.tables_selected)

\* C2: in /generate_sql, with or without schema_context, a first SQL with an
\* error-severity semantic issue is followed by a second generation whose
\* prompt carries the semantic delta, and the validation failure does not
\* make the request end in an error (only the second LLM call may).
C2_SemanticFailureIsRepaired ==
    FirstSqlInvalid =>
        /\ Len(llm_calls) = 2
        /\ DeltasOf(llm_calls[2], "REPAIR_DELTA_SEMANTIC") # {}
        /\ response.error # NoError => llm_replies[2].kind = "bad_body"

\* C3: a /repair_sql request with a postgres_error of a repairable SQLSTATE,
\* with or without schema_context, gets a prompt with the planner delta
\* (error code, message, previous SQL) and one generation; it ends in an
\* internal error only if the LLM call itself breaks.
C3_PlannerErrorIsRepaired ==
    ( /\ Answered("repair_sql")
      /\ SupportedDatabase
      /\ request.postgres_error.present
      /\ request.postgres_error.sqlstate \in RepairableSqlstates )
    =>  /\ Len(llm_calls) = 1
        /\ \E i \in DeltasOf(llm_calls[1], "REPAIR_DELTA_POSTGRES") :
              /\ llm_calls[1][i].sqlstate = request.postgres_error.sqlstate
              /\ llm_calls[1][i].message = request.postgres_error.message
              /\ llm_calls[1][i].previous_sql = request.previous_sql
        /\ response.error.type = "internal"
              => llm_replies[1].kind = "bad_body"

\* C4: a /repair_sql request whose attempt exceeds max_attempts ends in
\* failure and returns no SQL.
C4_AttemptsAreCapped ==
    (Answered("repair_sql") /\ request.attempt > request.max_attempts)
    =>  /\ response.error # NoError
        /\ response.sql_generated = EmptySql

\* C5: the confidence reported after a repair attempt is never greater than
\* the confidence estimated for the SQL of the preceding attempt.
C5_ConfidenceNeverIncreases ==
    /\ (Answered("generate_sql") /\ Len(llm_calls) = 2)
          => response.confidence_score <= attempts[1].confidence
    /\ (Answered("repair_sql") /\ llm_calls # <<>>)
          => response.confidence_score
                <= EstimateConfidence(request.previous_sql)

\* C6: whenever a repair yields SQL, the reported confidence is at most
\* 1.0 - 0.1 * attempts (attempts = 1 for the repair inside /generate_sql).
C6_RepairedConfidenceBound ==
    /\ (Answered("generate_sql") /\ response.notes = "auto_repaired")
          => response.confidence_score
                <= FullConfidence - RepairSqlPenaltyPerAttempt * DefaultAttempt
    /\ (Answered("repair_sql") /\ Succeeded)
          => response.confidence_score
                <= FullConfidence - RepairSqlPenaltyPerAttempt * request.attempt

\* C7: confidence_score of every response lies in [0, 1].
C7_ConfidenceInUnitInterval ==
    pc = "done" =>
        /\ response.confidence_score >= 0
        /\ response.confidence_score <= FullConfidence

\* the model answered the first call with a statement that is not a SELECT
EmittedNonSelect ==
    /\ Answered("generate_sql")
    /\ llm_replies # <<>>
    /\ llm_replies[1].kind = "text"
    /\ ~IsGibberish(llm_replies[1].text)
    /\ ~StartsWithSelect(llm_replies[1].text)

\* C8: when the model emits a statement that is not a SELECT, no SQL is
\* returned, no repair generation is made and the error is marked
\* recoverable = false.
C8_NonSelectIsNotRecoverable ==
    EmittedNonSelect =>
        /\ response.sql_generated = EmptySql
        /\ Len(llm_calls) = 1
        /\ response.error # NoError
        /\ ~response.error.recoverable

FirstReplyIs(kinds) ==
    /\ Answered("generate_sql")
    /\ llm_replies # <<>>
    /\ llm_replies[1].kind \in kinds

\* C9: a connection failure yields an error with recoverable = false; a
\* timeout or gibberish output yields an error with recoverable = true.
C9_OnlyUnreachableIsNotRecoverable ==
    /\ FirstReplyIs({"connection"})
          => response.error # NoError /\ ~response.error.recoverable
    /\ ( \/ FirstReplyIs({"timeout"})
         \/ FirstReplyIs({"text"}) /\ IsGibberish(llm_replies[1].text) )
          => response.error # NoError /\ response.error.recoverable

\* an exception that is not a HridaError was raised while handling the
\* request: by the LLM call, or by the handler's own code
NonGenerationException ==
    /\ pc = "done"
    /\ \/ raised # "none"
       \/ \E i \in 1..Len(llm_replies) : llm_replies[i].kind = "bad_body"

\* C10: an exception other than a generation error raised while handling
\* /generate_sql or /repair_sql is returned as a response with
\* error.type = internal, recoverable = false, empty SQL and confidence 0.
C10_InternalErrorsAreReturned ==
    NonGenerationException =>
        /\ response.error = ErrorResponse("internal", FALSE)
        /\ response.sql_generated = EmptySql
        /\ response.confidence_score = 0

\* C10 witness: the LLM endpoint answered with a body the client cannot read
C10_Witness ==
    /\ pc = "done"
    /\ raised = "AttributeError"
    /\ llm_replies # <<>>
    /\ response.error.type = "internal"

\* table selection left no table: no table scores above 0 for the question,
\* or the packet's table list is empty
NoTableSelected ==
    /\ pc = "done"
    /\ SupportedDatabase
    /\ IF UsesRag THEN request.schema_context.tables = <<>>
       ELSE \A t \in Range(MCPTEST_SCHEMA) :
                TableScore(request.question, t) = 0

\* C11: when table selection yields zero tables (no keyword match, or an
\* empty schema_context table list) the request fails with a non-recoverable
\* NoRelevantSchema error and no LLM generation is attempted.
C11_NoTablesIsNoRelevantSchema ==
    NoTableSelected =>
        /\ response.error.type = "NoRelevantSchema"
        /\ ~response.error.recoverable
        /\ llm_calls = <<>>

\* the prompt /generate_sql sends for its first attempt when it is given the
\* question, database_id and schema_context of the request at hand (the
\* first prompt does not depend on what the LLM answers)
FirstPromptOfGenerateSql ==
    LET req == [endpoint |-> "generate_sql", question |-> request.question,
                database_id |-> request.database_id,
                schema_context |-> request.schema_context]
        any == [kind |-> "timeout", text |-> EmptySql]
    IN  GenerateSqlEndpoint(req, any, any).llm_calls[1]

\* the part of a repair prompt that precedes the "\n\n" put before the deltas
BasePortion(prompt) ==
    LET seps == {i \in 1..Len(prompt) : prompt[i] = Separator}
    IN  IF seps = {} THEN prompt
        ELSE SubSeq(prompt, 1, (CHOOSE i \in seps : \A j \in seps : i <= j) - 1)

\* C12: for the same question and schema-context packet (join_hints and
\* join_paths included), the base portion of the prompt /repair_sql builds is
\* identical to the prompt /generate_sql sent for the first attempt.
C12_RepairBaseIsFirstPrompt ==
    (Answered("repair_sql") /\ llm_calls # <<>>)
    => BasePortion(llm_calls[1]) = FirstPromptOfGenerateSql

\* the delta templates of a prompt, in the order they appear
DeltaTemplates(prompt) ==
    LET deltas == SelectSeq(prompt, LAMBDA piece : piece.kind = "delta")
    IN  [i \in 1..Len(deltas) |-> deltas[i].template]

\* the templates the claimed order gives for the issues supplied
ExpectedTemplates(semantic_issues, validator_issues, postgres_error) ==
    (IF semantic_issues # <<>> THEN <<"REPAIR_DELTA_SEMANTIC">> ELSE <<>>)
    \o (IF validator_issues # <<>> THEN <<"REPAIR_DELTA_VALIDATOR">> ELSE <<>>)
    \o (IF postgres_error.present THEN <<"REPAIR_DELTA_POSTGRES">> ELSE <<>>)

\* prompt is base, "\n\n", then the delta blocks with one "\n\n" between
\* consecutive blocks and nothing else
IsBasePlusJoinedDeltas(prompt, base) ==
    /\ Len(prompt) >= Len(base) + 1
    /\ SubSeq(prompt, 1, Len(base)) = base
    /\ prompt[Len(base) + 1] = Separator
    /\ LET rest == SubSeq(prompt, Len(base) + 2, Len(prompt))
       IN  /\ rest = <<>> \/ Len(rest) % 2 = 1
           /\ \A i \in 1..Len(rest) :
                 IF i % 2 = 1 THEN rest[i].kind = "delta"
                 ELSE rest[i] = Separator

\* the base prompt for the question and schema of the request at hand
BaseOfRequest ==
    IF UsesRag THEN BuildRagPrompt(request.question, request.schema_context)
    ELSE BuildHridaPrompt(request.question,
                          BuildFilteredSchema(FilterTables(request.question)))

\* C13: every repair prompt returned by build_repair_prompt or
\* build_rag_repair_prompt is base + "\n\n" + the delta blocks joined by
\* "\n\n"; the blocks are the semantic, the structural-validator and the
\* planner delta, in this order, each present exactly when issues of that
\* kind were supplied.
C13_RepairPromptIsBasePlusDeltas ==
    /\ (Answered("repair_sql") /\ llm_calls # <<>>)
          => /\ IsBasePlusJoinedDeltas(llm_calls[1], BaseOfRequest)
             /\ DeltaTemplates(llm_calls[1])
                   = ExpectedTemplates(request.semantic_issues,
                                       request.validator_issues,
                                       request.postgres_error)
    /\ (Answered("generate_sql") /\ Len(llm_calls) = 2)
          => /\ IsBasePlusJoinedDeltas(llm_calls[2], llm_calls[1])
             /\ DeltaTemplates(llm_calls[2])
                   = ExpectedTemplates(
                        SemanticIssues(request.question, attempts[1].sql),
                        <<>>, NoPostgresError)

\* C13 witness: build_rag_repair_prompt returned a prompt with all three
\* delta blocks
C13_Witness ==
    /\ Answered("repair_sql")
    /\ llm_calls # <<>>
    /\ request.semantic_issues # <<>>
    /\ request.validator_issues # <<>>
    /\ request.postgres_error.present
    /\ Len(DeltaTemplates(llm_calls[1])) = 3

\* every delta block of the prompt embeds the text sql
DeltasContain(prompt, sql) ==
    \A i \in 1..Len(prompt) :
        prompt[i].kind = "delta"
        => /\ "previous_sql" \in DOMAIN prompt[i]
           /\ prompt[i].previous_sql = sql

\* C14: every delta block appended to a repair prompt (semantic,
\* structural-validator or planner) contains the previous SQL verbatim.
C14_DeltasContainPreviousSql ==
    /\ (Answered("repair_sql") /\ llm_calls # <<>>)
          => DeltasContain(llm_calls[1], request.previous_sql)
    /\ (Answered("generate_sql") /\ Len(llm_calls) = 2)
          => DeltasContain(llm_calls[2], attempts[1].sql)

\* C15: whenever a repair prompt is built for a postgres_error with SQLSTATE
\* 42703 (undefined column), its planner delta includes a minimal column
\* whitelist naming the columns of the table the model referenced.
C15_UndefinedColumnGetsWhitelist ==
    ( /\ Answered("repair_sql")
      /\ llm_calls # <<>>
      /\ request.postgres_error.present
      /\ request.postgres_error.sqlstate = "42703" )
    => \E i \in DeltasOf(llm_calls[1], "REPAIR_DELTA_POSTGRES") :
          LET section == llm_calls[1][i].column_candidates_section
          IN  /\ section.template = "REPAIR_DELTA_MINIMAL_WHITELIST"
              /\ section.primary_columns # <<>>

\* the table a join-hint end names: the part before the column
TableOfHintEnd(hint_end) ==
    IF Len(hint_end) >= 3 THEN hint_end[2] ELSE hint_end[1]

\* the hints of the packet whose two tables are both among its tables
HintsWithinPacket(schema_context) ==
    SelectSeq(schema_context.join_hints,
              LAMBDA h :
                 /\ TableOfHintEnd(h.from) \in Range(schema_context.tables)
                 /\ TableOfHintEnd(h.to) \in Range(schema_context.tables))

\* C16: with join-hint format "edges", the join-hint block of the base
\* prompt lists a join hint of the packet if and only if both its from-table
\* and its to-table are among the packet's tables (the first 15 such hints,
\* in packet order), for hints written table.column as well as
\* schema.table.column.
C16_JoinHintsFilteredToPacket ==
    (rag_prompt # <<>> /\ join_hint_format = "edges")
    => rag_prompt[1].join_hints_block.hints
          = FirstN(HintsWithinPacket(rag_packet), MaxHintLines)

\* C17: when a /generate_sql or /repair_sql request carries a
\* schema_context, keyword table retrieval is not run: tables_selected of the
\* response is a subset of the packet's table names, and exactly the packet's
\* table names in packet order whenever a generation was attempted.
C17_PacketTablesAreSelected ==
    (pc = "done" /\ UsesRag)
    =>  /\ Range(response.tables_selected)
              \subseteq Range(request.schema_context.tables)
        /\ llm_calls # <<>>
              => response.tables_selected = request.schema_context.tables

(***************************************************************************)
(* ollama_client.py.  Here an SQL text is the sequence of its characters,  *)
(* so that lower-casing, stripping and whitespace collapsing are computed. *)
(***************************************************************************)
UpperCase ==
    <<"A", "B", "C", "D", "E", "F", "G", "H", "I", "J", "K", "L", "M",
      "N", "O", "P", "Q", "R", "S", "T", "U", "V", "W", "X", "Y", "Z">>
LowerCase ==
    <<"a", "b", "c", "d", "e", "f", "g", "h", "i", "j", "k", "l", "m",
      "n", "o", "p", "q", "r", "s", "t", "u", "v", "w", "x", "y", "z">>
Digits == {"0", "1", "2", "3", "4", "5", "6", "7", "8", "9"}
Whitespace == {" ", "\n", "\t"}

IndexIn(letters, c) == CHOOSE i \in 1..Len(letters) : letters[i] = c

ToLower(c) ==
    IF c \in Range(UpperCase) THEN LowerCase[IndexIn(UpperCase, c)] ELSE c
ToUpper(c) ==
    IF c \in Range(LowerCase) THEN UpperCase[IndexIn(LowerCase, c)] ELSE c

\* str.lower(), str.upper()
LowerOf(s) == [i \in 1..Len(s) |-> ToLower(s[i])]
UpperOf(s) == [i \in 1..Len(s) |-> ToUpper(s[i])]

\* str.strip()
RECURSIVE LStrip(_)
LStrip(s) ==
    IF s # <<>> /\ Head(s) \in Whitespace THEN LStrip(Tail(s)) ELSE s
RECURSIVE RStrip(_)
RStrip(s) ==
    IF s # <<>> /\ s[Len(s)] \in Whitespace
    THEN RStrip(SubSeq(s, 1, Len(s) - 1)) ELSE s
Strip(s) == RStrip(LStrip(s))

\* re.sub(r'\s+', ' ', s)
RECURSIVE CollapseWhitespace(_)
CollapseWhitespace(s) ==
    IF s = <<>> THEN <<>>
    ELSE IF Head(s) \in Whitespace
    THEN <<" ">> \o CollapseWhitespace(LStrip(s))
    ELSE <<Head(s)>> \o CollapseWhitespace(Tail(s))

\* the positions where pattern occurs in s
Occurrences(s, pattern) ==
    {i \in 1..(Len(s) - Len(pattern) + 1) :
        SubSeq(s, i, i + Len(pattern) - 1) = pattern}

\* str.startswith(), str.endswith(), str.count() for patterns that cannot
\* overlap themselves
StartsWith(s, prefix) == 1 \in Occurrences(s, prefix)
EndsWith(s, suffix) == (Len(s) - Len(suffix) + 1) \in Occurrences(s, suffix)
Count(s, pattern) == Cardinality(Occurrences(s, pattern))

KwSelect == <<"S", "E", "L", "E", "C", "T">>
KwJoin == <<"J", "O", "I", "N">>
KwHaving == <<"H", "A", "V", "I", "N", "G">>
KwWindow == <<"W", "I", "N", "D", "O", "W">>
KwOver == <<"O", "V", "E", "R">>
KwCannotGenerate ==
    <<"C", "A", "N", "N", "O", "T", "_", "G", "E", "N", "E", "R", "A", "T",
      "E">>

IsWordChar(c) == c \in Range(UpperCase) \cup Range(LowerCase) \cup Digits \cup {"_"}

\* _strip_markdown_fences for a text without code fences: the text from the
\* first SELECT that ends at a word boundary onward, stripped
StripMarkdownFences(text) ==
    LET stripped == Strip(text)
        selects == {i \in Occurrences(UpperOf(stripped), KwSelect) :
                        \/ i + Len(KwSelect) > Len(stripped)
                        \/ ~IsWordChar(stripped[i + Len(KwSelect)])}
    IN  IF selects # {}
        THEN Strip(SubSeq(stripped,
                          CHOOSE i \in selects : \A j \in selects : i <= j,
                          Len(stripped)))
        ELSE stripped

\* _is_gibberish(text) with multi_candidate=False; noise says whether one of
\* the three regular expressions for garbled output matches
OllamaIsGibberish(text, noise) ==
    \/ noise
    \/ Count(text, <<"(">>) > MaxParens
    \/ Count(text, <<"[">>) > MaxBrackets
    \/ Len(text) < ShortTextLen /\ ~StartsWith(UpperOf(text), KwSelect)
    \/ Occurrences(UpperOf(text), KwCannotGenerate) # {}

OllamaEstimateConfidence(sql) ==
    LET upper == UpperOf(sql)
        join_count == Count(upper, KwJoin)
        c0 == FullConfidence
        c1 == IF join_count > ManyJoins THEN c0 - JoinPenalty ELSE c0
        c2 == IF Occurrences(upper, KwHaving) # {}
              THEN c1 - HavingPenalty ELSE c1
        c3 == IF Occurrences(upper, KwWindow) # {}
                 \/ Occurrences(upper, KwOver) # {}
              THEN c2 - WindowPenalty ELSE c2
        c4 == IF Len(sql) > LongQueryLen THEN c3 - LengthPenalty ELSE c3
        c5 == IF Count(sql, <<"(">> \o KwSelect) > ManySubqueries
              THEN c4 - SubqueryPenalty ELSE c4
        c6 == IF join_count = 0 /\ Len(sql) < SimpleQueryLen
              THEN c5 + SimpleBonus ELSE c5
    IN  Max(0, Min(FullConfidence, c6))

\* How one request to /api/generate ends inside generate_sql and
\* generate_sql_async: with (sql, confidence), or with an exception.
\* Timeouts and transport errors are re-raised as OllamaClientError; a body
\* whose "response" is not a string makes .strip() raise AttributeError.
OllamaOutcome(reply) ==
    LET failed(exc) == [exc |-> exc, sql |-> <<>>, confidence |-> 0]
        sql0 == StripMarkdownFences(Strip(reply.text))
        sql == IF EndsWith(sql0, <<";">>) THEN sql0 ELSE sql0 \o <<";">>
    IN  CASE reply.kind \in {"timeout", "connection"} ->
                failed("OllamaClientError")
          [] reply.kind = "bad_body" -> failed("AttributeError")
          [] OTHER ->
                IF OllamaIsGibberish(sql0, reply.noise)
                THEN failed("OllamaClientError")
                ELSE IF ~StartsWith(UpperOf(sql0), KwSelect)
                THEN failed("OllamaClientError")
                ELSE [exc |-> "none", sql |-> sql,
                      confidence |-> OllamaEstimateConfidence(sql)]

OllamaGenerateSql(reply) == OllamaOutcome(reply)
OllamaGenerateSqlAsync(reply) == OllamaOutcome(reply)

\* normalized = re.sub(r'\s+', ' ', sql.lower().strip())
Normalized(sql) == CollapseWhitespace(Strip(LowerOf(sql)))

(***************************************************************************)
(* ollama_client.py: multi-candidate generation                            *)
(***************************************************************************)
\* the largest k tried
MaxK == 2

\* SELECT 1
TextSelect1 == KwSelect \o <<" ", "1">>
\* select  1   (lower case, two blanks)
TextSelect1Spaced == <<"s", "e", "l", "e", "c", "t", " ", " ", "1">>
\* SELECT 1;
TextSelect1Semi == KwSelect \o <<" ", "1", ";">>
\* SELECT 2
TextSelect2 == KwSelect \o <<" ", "2">>
\* Sure: SELECT 2   (prose before the statement, trailing newline)
TextProseSelect2 ==
    <<"S", "u", "r", "e", ":", " ">> \o KwSelect \o <<" ", "2", "\n">>
\* INSERT 1
TextInsert == <<"I", "N", "S", "E", "R", "T", " ", "1">>

OllamaTexts ==
    {TextSelect1, TextSelect1Spaced, TextSelect1Semi, TextSelect2,
     TextProseSelect2, TextInsert}

\* What one POST to /api/generate can come back with.
OllamaReplies ==
    [kind : {"text"}, text : OllamaTexts, noise : {FALSE}]
    \cup [kind : {"timeout", "connection", "bad_body"}, text : {<<>>},
          noise : {FALSE}]

Pending == [exc |-> "pending", sql |-> <<>>, confidence |-> 0]

CandidateCalls ==
    UNION {[mode : {"parallel", "sequential"}, k : {k},
            replies : [1..k -> OllamaReplies]] : k \in 0..MaxK}

\* variant of Normalized that compares the SQL strings as they are
NotNormalized(sql) == sql

\* the key under which a candidate is looked up in seen_normalized
DedupKey(sql) == Normalized(sql)

\* the body of "if normalized not in seen_normalized": acc is (candidates,
\* seen_normalized)
AddCandidate(acc, outcome) ==
    IF DedupKey(outcome.sql) \notin acc.seen_normalized
    THEN [candidates |-> Append(acc.candidates,
                                [sql |-> outcome.sql,
                                 confidence |-> outcome.confidence]),
          seen_normalized |-> acc.seen_normalized
                                \cup {DedupKey(outcome.sql)}]
    ELSE acc

\* "for result in results" of generate_candidates_parallel: exceptions are
\* skipped, the other results are deduplicated in order
RECURSIVE FilterAndDedup(_, _)
FilterAndDedup(results, acc) ==
    IF results = <<>> THEN acc
    ELSE FilterAndDedup(Tail(results),
                        IF Head(results).exc # "none" THEN acc
                        ELSE AddCandidate(acc, Head(results)))

CandidateInit ==
    /\ ServerIdle
    /\ ConfigIdle
    /\ BuilderIdle
    /\ slots = <<>>
    /\ cand_call \in CandidateCalls
    /\ cand_results = [i \in 1..cand_call.k |-> Pending]
    /\ cand_return = [status |-> "running", candidates |-> <<>>,
                      seen_normalized |-> {}, settled |-> <<>>]

PendingRequests == {i \in 1..Len(cand_results) : cand_results[i] = Pending}

\* asyncio.gather: the k tasks run concurrently and finish in any order
SettleTask ==
    /\ cand_return.status = "running"
    /\ cand_call.mode = "parallel"
    /\ \E i \in PendingRequests :
          /\ cand_results' =
                [cand_results EXCEPT
                    ![i] = OllamaGenerateSqlAsync(cand_call.replies[i])]
          /\ cand_return' = [cand_return EXCEPT !.settled = Append(@, i)]
    /\ UNCHANGED <<cand_call, server_vars, builder_vars, slots, config_vars>>

\* variant of Gathered that hands the results over as the tasks completed
\* (what asyncio.as_completed does)
AsCompleted(results, settled) ==
    [n \in 1..Len(settled) |-> results[settled[n]]]

\* results = await asyncio.gather(*tasks, return_exceptions=True): the
\* results in the order of the tasks, whatever the order of completion
Gathered(results, settled) == results

\* gather(return_exceptions=True) returned: filter, deduplicate, return
GatherReturned ==
    /\ cand_return.status = "running"
    /\ cand_call.mode = "parallel"
    /\ PendingRequests = {}
    /\ LET acc == FilterAndDedup(Gathered(cand_results, cand_return.settled),
                                 [candidates |-> <<>>,
                                  seen_normalized |-> {}])
       IN  cand_return' = [status |-> "returned",
                           candidates |-> acc.candidates,
                           seen_normalized |-> acc.seen_normalized,
                           settled |-> cand_return.settled]
    /\ UNCHANGED <<cand_call, cand_results, server_vars, builder_vars, slots,
                   config_vars>>

\* one iteration of "for i in range(k)" of generate_candidates_sequential:
\* only OllamaClientError is caught
SequentialIteration ==
    /\ cand_return.status = "running"
    /\ cand_call.mode = "sequential"
    /\ PendingRequests # {}
    /\ LET i == CHOOSE n \in PendingRequests :
                    \A m \in PendingRequests : n <= m
           outcome == OllamaGenerateSql(cand_call.replies[i])
           acc == [candidates |-> cand_return.candidates,
                   seen_normalized |-> cand_return.seen_normalized]
           added == AddCandidate(acc, outcome)
       IN  /\ cand_results' = [cand_results EXCEPT ![i] = outcome]
           /\ cand_return' =
                 CASE outcome.exc = "none" ->
                        [status |-> "running",
                         candidates |-> added.candidates,
                         seen_normalized |-> added.seen_normalized,
                         settled |-> cand_return.settled]
                   [] outcome.exc = "OllamaClientError" -> cand_return
                   [] OTHER -> [cand_return EXCEPT !.status = "raised"]
    /\ UNCHANGED <<cand_call, server_vars, builder_vars, slots,
                   config_vars>>

\* the loop is over: return candidates
SequentialReturned ==
    /\ cand_return.status = "running"
    /\ cand_call.mode = "sequential"
    /\ PendingRequests = {}
    /\ cand_return' = [cand_return EXCEPT !.status = "returned"]
    /\ UNCHANGED <<cand_call, cand_results, server_vars, builder_vars, slots,
                   config_vars>>

CandidateNext ==
    SettleTask \/ GatherReturned \/ SequentialIteration \/ SequentialReturned

CandidateSpec == CandidateInit /\ [][CandidateNext]_vars

\* the lowercase, whitespace-collapsed form of an SQL string
LowerCollapsed(sql) == CollapseWhitespace(LowerOf(sql))

\* the requests of the call that ended with (sql, confidence)
SucceededRequests ==
    {i \in 1..cand_call.k : OllamaOutcome(cand_call.replies[i]).exc = "none"}

\* C18: the candidate list returned by multi-candidate generation (parallel
\* or sequential) never contains two SQL strings whose lowercase,
\* whitespace-collapsed forms are equal.
C18_CandidatesAreDistinct ==
    cand_return.status = "returned"
    => \A i, j \in 1..Len(cand_return.candidates) :
          i < j => LowerCollapsed(cand_return.candidates[i].sql)
                      # LowerCollapsed(cand_return.candidates[j].sql)

\* C18 witness: two requests succeeded with strings that differ only in case
\* and spacing, and one candidate was returned
C18_Witness ==
    /\ cand_return.status = "returned"
    /\ Len(cand_return.candidates) = 1
    /\ \E i, j \in SucceededRequests :
          OllamaOutcome(cand_call.replies[i]).sql
              # OllamaOutcome(cand_call.replies[j]).sql

\* C19: multi-candidate generation has settle-all semantics: the failure of
\* any subset of the k requests never aborts the batch; the call waits for
\* all k requests and returns the deduplicated candidates of exactly the
\* requests that succeeded (possibly none).
C19_SettleAll ==
    /\ cand_return.status # "raised"
    /\ cand_return.status = "returned"
          => /\ PendingRequests = {}
             /\ {LowerCollapsed(c.sql) : c \in Range(cand_return.candidates)}
                   = {LowerCollapsed(OllamaOutcome(cand_call.replies[i]).sql) :
                        i \in SucceededRequests}

(***************************************************************************)
(* app.py: several requests in progress at once.  Each connection has its  *)
(* own handler invocation, whose variables are locals of the coroutine;    *)
(* the handlers share hrida_client._default_client.  A handler is followed *)
(* from LLM call to LLM call, and the handlers are interleaved at these    *)
(* points.                                                                 *)
(***************************************************************************)
\* the number of connections
MaxSlots == 2

IdleSlot ==
    [stage |-> "idle", request |-> NoRequest, replies |-> <<>>,
     response |-> NoResponse]

SlotRequests ==
    { [endpoint |-> "generate_sql", question |-> QTitan,
       database_id |-> "mcptest", schema_context |-> NoContext],
      [endpoint |-> "generate_sql", question |-> QCount,
       database_id |-> "mcptest", schema_context |-> PacketCompanies],
      [endpoint |-> "generate_sql", question |-> QCount,
       database_id |-> "enterprise_erp", schema_context |-> NoContext],
      [endpoint |-> "repair_sql", question |-> QTitan,
       database_id |-> "mcptest", schema_context |-> NoContext,
       previous_sql |-> EnsureSemicolon(SqlNoEntity),
       attempt |-> DefaultAttempt, max_attempts |-> DefaultMaxAttempts,
       validator_issues |-> <<>>, postgres_error |-> NoPostgresError,
       semantic_issues |-> <<Issue("MISSING_ENTITY", "error")>>],
      [endpoint |-> "repair_sql", question |-> QCount,
       database_id |-> "enterprise_erp", schema_context |-> PacketErp,
       previous_sql |-> EnsureSemicolon(SqlNoEntity),
       attempt |-> DefaultAttempt, max_attempts |-> DefaultMaxAttempts,
       validator_issues |-> <<>>,
       postgres_error |-> PostgresError("42703", NoWhitelist, <<>>),
       semantic_issues |-> <<>>] }

SlotReplies ==
    { [kind |-> "text", text |-> SqlTitan],
      [kind |-> "text", text |-> SqlNoEntity],
      [kind |-> "timeout", text |-> EmptySql],
      [kind |-> "bad_body", text |-> EmptySql] }

\* the handler of a request run from its first line to its return, given
\* the answers of the LLM to the calls it makes
RunHandler(req, replies) ==
    LET unused == [kind |-> "timeout", text |-> EmptySql]
        reply(i) == IF i <= Len(replies) THEN replies[i] ELSE unused
    IN  IF req.endpoint = "generate_sql"
        THEN GenerateSqlEndpoint(req, reply(1), reply(2))
        ELSE RepairSqlEndpoint(req, reply(1))

\* variant of LocalsOf in which the answers of the LLM are kept in one place
\* for all connections
SharedLocals(s) == [slots[s] EXCEPT !.replies = slots[1].replies]

\* the local variables of the handler invocation of connection s
LocalsOf(s) == slots[s]

\* the handler of connection s has a further LLM call to make
NeedsCall(s) ==
    Len(RunHandler(LocalsOf(s).request, LocalsOf(s).replies).llm_calls)
        > Len(LocalsOf(s).replies)

ConcurrentInit ==
    /\ BuilderIdle
    /\ ConfigIdle
    /\ CandidatesIdle
    /\ ServerIdle
    /\ slots = [s \in 1..MaxSlots |-> IdleSlot]

\* pc .. raised describe the server when it takes one request at a time
OnlySlots ==
    UNCHANGED <<pc, request, response, llm_calls, llm_replies, attempts,
                raised, builder_vars, candidate_vars, config_vars>>

\* a POST arrives on connection s
Accept(s) ==
    /\ slots[s].stage = "idle"
    /\ \E req \in SlotRequests :
          slots' = [slots EXCEPT ![s] = [IdleSlot EXCEPT !.stage = "running",
                                                         !.request = req]]
    /\ UNCHANGED default_client
    /\ OnlySlots

\* hrida_client = get_hrida_client(); hrida_client.generate_sql(prompt)
CallLlm(s) ==
    /\ slots[s].stage = "running"
    /\ NeedsCall(s)
    /\ default_client' = TRUE
    /\ \E reply \in SlotReplies :
          slots' = [slots EXCEPT ![s].replies = Append(@, reply)]
    /\ OnlySlots

\* the handler returns its PythonSidecarResponse
Return(s) ==
    /\ slots[s].stage = "running"
    /\ ~NeedsCall(s)
    /\ slots' = [slots EXCEPT
                    ![s].stage = "done",
                    ![s].response =
                        RunHandler(LocalsOf(s).request,
                                   LocalsOf(s).replies).response]
    /\ UNCHANGED default_client
    /\ OnlySlots

\* the response has been sent
Send(s) ==
    /\ slots[s].stage = "done"
    /\ slots' = [slots EXCEPT ![s] = IdleSlot]
    /\ UNCHANGED default_client
    /\ OnlySlots

ConcurrentNext ==
    \E s \in 1..MaxSlots : Accept(s) \/ CallLlm(s) \/ Return(s) \/ Send(s)

ConcurrentSpec == ConcurrentInit /\ [][ConcurrentNext]_vars

IntValue(n) == [kind |-> "int", int |-> n]
StrValue(s) == [kind |-> "str", str |-> s]
BoolValue(b) == [kind |-> "bool", bool |-> b]
EmptyDict == [key \in {} |-> None]
Dict(items) == [kind |-> "dict", items |-> items]
Raised == [kind |-> "raised"]

IsDict(v) == v.kind = "dict"

\* bool(v) of Python, as used by `x or y`
Truthy(v) ==
    CASE v.kind = "none" -> FALSE
      [] v.kind = "int" -> v.int # 0
      [] v.kind = "str" -> v.str # <<>>
      [] v.kind = "bool" -> v.bool
      [] v.kind = "dict" -> DOMAIN v.items # {}
Or(x, y) == IF Truthy(x) THEN x ELSE y

\* dict.get(key), and the dict after d[key] = value
Get(d, key) == IF key \in DOMAIN d THEN d[key] ELSE None
Put(d, key, value) ==
    [k \in DOMAIN d \cup {key} |-> IF k = key THEN value ELSE d[k]]

\* _deep_merge(a, b)
RECURSIVE DeepMerge(_, _)
DeepMerge(a, b) ==
    [key \in DOMAIN a \cup DOMAIN b |->
        IF key \notin DOMAIN b THEN a[key]
        ELSE IF IsDict(b[key]) /\ IsDict(Get(a, key))
        THEN Dict(DeepMerge(a[key].items, b[key].items))
        ELSE b[key]]

\* _load_yaml(path), with PyYAML installed: {} unless the file exists and
\* holds a mapping
LoadYaml(file) == IF IsDict(file) THEN file.items ELSE EmptyDict

\* _find_config_dir: the config directory is the one that holds config.yaml
FindConfigDir(base_file) == base_file # NoFile

\* _env(name)
Env(env, name) == IF env[name].set THEN StrValue(env[name].value) ELSE None

\* _env_bool(name)
EnvBool(env, name) ==
    IF Env(env, name) = None THEN None
    ELSE BoolValue(LowerOf(env[name].value) \in {<<"t", "r", "u", "e">>, <<"1">>})

\* int(v) of a str: surrounding whitespace and one sign are accepted, then
\* decimal digits only (no text here has "_" between digits)
DigitChars == <<"0", "1", "2", "3", "4", "5", "6", "7", "8", "9">>
Unsigned(s) == IF s # <<>> /\ Head(s) \in {"+", "-"} THEN Tail(s) ELSE s
IsIntText(s) ==
    LET digits == Unsigned(Strip(s))
    IN  digits # <<>> /\ \A i \in 1..Len(digits) : digits[i] \in Digits
RECURSIVE DecimalValue(_)
DecimalValue(digits) ==
    IF digits = <<>> THEN 0
    ELSE 10 * DecimalValue(SubSeq(digits, 1, Len(digits) - 1))
         + (IndexIn(DigitChars, digits[Len(digits)]) - 1)
IntOfText(s) ==
    LET t == Strip(s)
    IN  IF Head(t) = "-" THEN 0 - DecimalValue(Unsigned(t))
        ELSE DecimalValue(Unsigned(t))

\* _env_int(name): None when unset or when int() raises ValueError
EnvInt(env, name) ==
    IF Env(env, name) = None THEN None
    ELSE IF IsIntText(env[name].value) THEN IntValue(IntOfText(env[name].value))
    ELSE None

\* cfg.setdefault(section, {})
SetDefault(cfg, section) ==
    IF section \in DOMAIN cfg THEN cfg ELSE Put(cfg, section, Dict(EmptyDict))

\* the assignments of _apply_env_overrides to m, g, s and l
ModelOverrides(m, env) ==
    [key \in DOMAIN m \cup {"llm", "ollama_url", "timeout", "num_ctx",
                            "sql_system_prompt"} |->
        CASE key = "llm" -> Or(Env(env, "OLLAMA_MODEL"), Get(m, "llm"))
          [] key = "ollama_url" ->
                Or(Env(env, "OLLAMA_BASE_URL"), Get(m, "ollama_url"))
          [] key = "timeout" ->
                Or(EnvInt(env, "OLLAMA_TIMEOUT"), Get(m, "timeout"))
          [] key = "num_ctx" ->
                IF Env(env, "OLLAMA_NUM_CTX") # None
                THEN EnvInt(env, "OLLAMA_NUM_CTX") ELSE Get(m, "num_ctx")
          [] key = "sql_system_prompt" ->
                Or(Env(env, "SQL_SYSTEM_PROMPT"), Get(m, "sql_system_prompt"))
          [] OTHER -> m[key]]
GenerationOverrides(g, env) ==
    IF EnvBool(env, "SEQUENTIAL_CANDIDATES") # None
    THEN Put(g, "sequential", EnvBool(env, "SEQUENTIAL_CANDIDATES")) ELSE g
SidecarOverrides(s, env) ==
    LET with_format ==
            Put(s, "join_hint_format",
                Or(Env(env, "JOIN_HINT_FORMAT"), Get(s, "join_hint_format")))
    IN  IF EnvInt(env, "PORT") # None
        THEN Put(with_format, "port", EnvInt(env, "PORT")) ELSE with_format
LoggingOverrides(l, env) ==
    Put(l, "level", Or(Env(env, "LOG_LEVEL"), Get(l, "level")))

\* _apply_env_overrides(cfg): the dict after the call, or Raised when a
\* section of the YAML is not a mapping (m.get / m[...] = ... on None)
ApplyEnvOverrides(cfg, env) ==
    LET c == SetDefault(SetDefault(SetDefault(SetDefault(cfg, "model"),
                 "generation"), "sidecar"), "logging")
    IN  IF \/ ~IsDict(c["model"])
           \/ ~IsDict(c["generation"])
                /\ EnvBool(env, "SEQUENTIAL_CANDIDATES") # None
           \/ ~IsDict(c["sidecar"])
           \/ ~IsDict(c["logging"])
        THEN Raised
        ELSE Dict([section \in DOMAIN c |->
                CASE section = "model" ->
                        Dict(ModelOverrides(c["model"].items, env))
                  [] section = "generation" ->
                        IF IsDict(c["generation"])
                        THEN Dict(GenerationOverrides(c["generation"].items,
                                                      env))
                        ELSE c["generation"]
                  [] section = "sidecar" ->
                        Dict(SidecarOverrides(c["sidecar"].items, env))
                  [] section = "logging" ->
                        Dict(LoggingOverrides(c["logging"].items, env))
                  [] OTHER -> c[section]])

\* load_config() when _config is None: the merged dict, or Raised
LoadFresh(env, base_file, local_file) ==
    ApplyEnvOverrides(
        IF FindConfigDir(base_file)
        THEN DeepMerge(LoadYaml(base_file), LoadYaml(local_file))
        ELSE EmptyDict,
        env)

(***************************************************************************)
(* config_loader.py: load_config and get_config called by a process whose  *)
(* environment and config files may change between the calls               *)
(***************************************************************************)
\* fresh loads (dict objects created) and calls between two resets
MaxLoads == 2
MaxCalls == 3

Text120 == <<"1", "2", "0">>
Text512 == <<"5", "1", "2">>
Text9999 == <<"9", "9", "9", "9">>
TextZero == <<"0">>
TextAbc == <<"a", "b", "c">>
Text90s == <<"9", "0", "s">>
TextEnv == <<"e", "n", "v">>
TextBase == <<"b", "a", "s", "e">>
TextLocal == <<"l", "o", "c", "a", "l">>
TextTrue == <<"T", "r", "u", "e">>
TextEdges == <<"e", "d", "g", "e", "s">>
TextPaths == <<"p", "a", "t", "h", "s">>

\* os.environ with the given variables set
Environ(settings) ==
    [name \in EnvNames |->
        IF name \in DOMAIN settings
        THEN [set |-> TRUE, value |-> settings[name]] ELSE Unset]

EnvSet ==
    Environ([OLLAMA_MODEL |-> TextEnv, OLLAMA_TIMEOUT |-> Text120,
             OLLAMA_NUM_CTX |-> Text512, PORT |-> Text9999,
             SEQUENTIAL_CANDIDATES |-> TextTrue,
             JOIN_HINT_FORMAT |-> TextPaths])
EnvZero ==
    Environ([OLLAMA_TIMEOUT |-> TextZero, OLLAMA_NUM_CTX |-> TextZero,
             PORT |-> TextZero])
EnvNotInt ==
    Environ([OLLAMA_TIMEOUT |-> Text90s, OLLAMA_NUM_CTX |-> TextAbc,
             PORT |-> TextAbc])
EnvEmptyModel == Environ([OLLAMA_MODEL |-> <<>>])
Environs == {EmptyEnviron, EnvSet, EnvZero, EnvNotInt, EnvEmptyModel}

\* config/config.yaml
BaseConfig ==
    Dict([model |-> Dict([llm |-> StrValue(TextBase),
                          timeout |-> IntValue(60),
                          num_ctx |-> IntValue(4096)]),
          generation |-> Dict([sequential |-> BoolValue(FALSE)]),
          sidecar |-> Dict([port |-> IntValue(8001),
                            join_hint_format |-> StrValue(TextEdges)]),
          database |-> Dict([host |-> StrValue(TextBase),
                             port |-> IntValue(5432)])])
BaseFiles == {NoFile, BaseConfig}

\* config/config.local.yaml: a partial override, a null key, a null section
LocalOverride ==
    Dict([model |-> Dict([llm |-> StrValue(TextLocal)]),
          database |-> Dict([host |-> StrValue(TextLocal)])])
LocalNullKey ==
    Dict([model |-> Dict([llm |-> None, timeout |-> IntValue(30)])])
LocalNullSection == Dict([model |-> None])
LocalFiles == {NoFile, LocalOverride, LocalNullKey, LocalNullSection}

\* a loader that builds the dict anew at every call
NeverCached(cache) == FALSE

\* `if _config is not None: return _config`
Cached(cache) == cache # None

ConfigInit ==
    /\ ServerIdle
    /\ BuilderIdle
    /\ CandidatesIdle
    /\ slots = <<>>
    /\ environ \in Environs
    /\ config_yaml \in BaseFiles
    /\ config_local_yaml \in LocalFiles
    /\ _config = None
    /\ config_calls = NoCalls

OnlyConfig == UNCHANGED <<server_vars, builder_vars, candidate_vars, slots>>

\* load_config() called through `by`: the value of _config and the record
\* of the calls after it (fresh says that a dict had to be built)
LoadConfigBody(by) ==
    IF Cached(_config)
    THEN [fresh |-> FALSE,
          cache |-> _config,
          calls |-> [config_calls EXCEPT
                        !.returned = Append(@, [by |-> by, value |-> _config])]]
    ELSE LET loaded == LoadFresh(environ, config_yaml, config_local_yaml)
             object == IF loaded = Raised THEN Raised
                       ELSE [kind |-> "dict",
                             id |-> config_calls.created + 1,
                             items |-> loaded.items]
         IN  [fresh |-> TRUE,
              cache |-> IF loaded = Raised THEN None ELSE object,
              calls |-> [returned |-> Append(config_calls.returned,
                                             [by |-> by, value |-> object]),
                         read |-> [environ |-> environ,
                                   config_yaml |-> config_yaml,
                                   config_local_yaml |-> config_local_yaml],
                         loaded |-> object,
                         created |-> config_calls.created + 1]]

\* load_config()
LoadConfig ==
    /\ Len(config_calls.returned) < MaxCalls
    /\ LoadConfigBody("load_config").fresh => config_calls.created < MaxLoads
    /\ _config' = LoadConfigBody("load_config").cache
    /\ config_calls' = LoadConfigBody("load_config").calls
    /\ UNCHANGED <<environ, config_yaml, config_local_yaml>>
    /\ OnlyConfig

\* get_config(): _config if it is not None, else load_config()
GetConfig ==
    /\ Len(config_calls.returned) < MaxCalls
    /\ IF _config # None
       THEN /\ config_calls' =
                   [config_calls EXCEPT
                       !.returned =
                           Append(@, [by |-> "get_config", value |-> _config])]
            /\ UNCHANGED _config
       ELSE /\ LoadConfigBody("get_config").fresh
                   => config_calls.created < MaxLoads
            /\ _config' = LoadConfigBody("get_config").cache
            /\ config_calls' = LoadConfigBody("get_config").calls
    /\ UNCHANGED <<environ, config_yaml, config_local_yaml>>
    /\ OnlyConfig

\* config_loader._config = None (the reset the tests do between cases)
ResetConfig ==
    /\ config_calls.returned # <<>>
    /\ _config' = None
    /\ config_calls' = [NoCalls EXCEPT !.created = config_calls.created]
    /\ UNCHANGED <<environ, config_yaml, config_local_yaml>>
    /\ OnlyConfig

\* the process or its parent changes os.environ
SetEnviron ==
    /\ \E env \in Environs \ {environ} : environ' = env
    /\ UNCHANGED <<config_yaml, config_local_yaml, _config, config_calls>>
    /\ OnlyConfig

\* the config files are edited
WriteConfigFiles ==
    /\ \E base_file \in BaseFiles, local_file \in LocalFiles :
          /\ <<base_file, local_file>> # <<config_yaml, config_local_yaml>>
          /\ config_yaml' = base_file
          /\ config_local_yaml' = local_file
    /\ UNCHANGED <<environ, _config, config_calls>>
    /\ OnlyConfig

ConfigNext ==
    LoadConfig \/ GetConfig \/ ResetConfig \/ SetEnviron \/ WriteConfigFiles

ConfigSpec == ConfigInit /\ [][ConfigNext]_vars

(***************************************************************************)
(* Properties of config_loader                                             *)
(***************************************************************************)
\* the settings an environment variable overrides, and two it does not
Setting(section, key, env, type) ==
    [section |-> section, key |-> key, env |-> env, type |-> type]
Settings ==
    {Setting("model", "llm", "OLLAMA_MODEL", "str"),
     Setting("model", "ollama_url", "OLLAMA_BASE_URL", "str"),
     Setting("model", "timeout", "OLLAMA_TIMEOUT", "int"),
     Setting("model", "num_ctx", "OLLAMA_NUM_CTX", "int"),
     Setting("model", "sql_system_prompt", "SQL_SYSTEM_PROMPT", "str"),
     Setting("generation", "sequential", "SEQUENTIAL_CANDIDATES", "bool"),
     Setting("sidecar", "join_hint_format", "JOIN_HINT_FORMAT", "str"),
     Setting("logging", "level", "LOG_LEVEL", "str"),
     Setting("sidecar", "port", "PORT", "int"),
     Setting("database", "host", "", "file"),
     Setting("database", "port", "", "file")}
IntSettings == {setting \in Settings : setting.type = "int"}

\* cfg[section][key] of a dict, None when there is no such entry
ValueAt(items, section, key) ==
    IF section \in DOMAIN items /\ IsDict(items[section])
    THEN Get(items[section].items, key) ELSE None
HasKey(items, section, key) ==
    /\ section \in DOMAIN items
    /\ IsDict(items[section])
    /\ key \in DOMAIN items[section].items
FileItems(file) == IF IsDict(file) THEN file.items ELSE EmptyDict

IsSetIn(env, setting) == setting.env \in EnvNames /\ env[setting.env].set
ParsesIn(env, setting) ==
    setting.type = "int" => IsIntText(env[setting.env].value)
\* the value an environment variable stands for
EnvironmentValue(env, setting) ==
    LET text == env[setting.env].value
    IN  CASE setting.type = "str" -> StrValue(text)
          [] setting.type = "int" -> IntValue(IntOfText(text))
          [] setting.type = "bool" ->
                BoolValue(LowerOf(text) \in {<<"t", "r", "u", "e">>, <<"1">>})

\* a load of this call sequence returned a dict; `read` is what it read
HasLoaded == config_calls.loaded.kind = "dict"
LoadedAt(setting) ==
    ValueAt(config_calls.loaded.items, setting.section, setting.key)
BaseAt(setting) ==
    ValueAt(FileItems(config_calls.read.config_yaml), setting.section,
            setting.key)
LocalAt(setting) ==
    ValueAt(FileItems(config_calls.read.config_local_yaml), setting.section,
            setting.key)
InLocal(setting) ==
    HasKey(FileItems(config_calls.read.config_local_yaml), setting.section,
           setting.key)

\* environment > local file > base file
ByPrecedence(setting) ==
    IF IsSetIn(config_calls.read.environ, setting)
    THEN EnvironmentValue(config_calls.read.environ, setting)
    ELSE IF InLocal(setting) THEN LocalAt(setting)
    ELSE BaseAt(setting)

\* the load found config/config.yaml, hence the config directory
FoundConfigDir == FindConfigDir(config_calls.read.config_yaml)

\* C21: every setting of a configuration loaded from a config directory has
\* the environment value if its variable is set (to a text that converts),
\* else the local file's value if the key is there (and not null), else the
\* base file's value.
C21_PrecedenceEnvLocalBase ==
    HasLoaded /\ FoundConfigDir =>
        \A setting \in Settings :
            (/\ IsSetIn(config_calls.read.environ, setting)
                    => ParsesIn(config_calls.read.environ, setting)
             /\ InLocal(setting) => LocalAt(setting) # None)
            => LoadedAt(setting) = ByPrecedence(setting)

\* the files read by the last load that built a dict or raised
HasRead == config_calls.read # None
ReadBase == FileItems(config_calls.read.config_yaml)
ReadLocal == FileItems(config_calls.read.config_local_yaml)

\* the environment read by that load sets the variable of this key
Overridden(section, key) ==
    \E setting \in Settings :
        /\ setting.section = section
        /\ setting.key = key
        /\ IsSetIn(config_calls.read.environ, setting)

\* C22: a key that is null in config.local.yaml and present in config.yaml
\* is present after the load with the value config.yaml gives it (keys whose
\* environment variable is set aside); this for a null key inside a section
\* and for a section that is null as a whole.
C22_NullInLocalKeepsBaseValue ==
    HasRead /\ FoundConfigDir =>
        \A section \in DOMAIN ReadLocal \cap DOMAIN ReadBase :
            /\ (ReadLocal[section] = None /\ IsDict(ReadBase[section])) =>
                   /\ HasLoaded
                   /\ \A key \in DOMAIN ReadBase[section].items :
                          ~Overridden(section, key) =>
                              ValueAt(config_calls.loaded.items, section, key)
                                  = ReadBase[section].items[key]
            /\ (IsDict(ReadLocal[section]) /\ IsDict(ReadBase[section])) =>
                   \A key \in DOMAIN ReadLocal[section].items
                                \cap DOMAIN ReadBase[section].items :
                       (/\ ReadLocal[section].items[key] = None
                        /\ ~Overridden(section, key)) =>
                           /\ HasLoaded
                           /\ ValueAt(config_calls.loaded.items, section, key)
                                  = ReadBase[section].items[key]

\* the values load_config/get_config returned since the last reset
Returned == config_calls.returned
IsObject(value) == value.kind = "dict"

\* C23: once a load_config() call has returned the configuration, every
\* later load_config() or get_config() call returns that very object (same
\* identity, same contents), whatever became of the environment and of the
\* config files since, until _config is reset.
C23_ConfigIsSingleton ==
    \A i \in 1..Len(Returned) :
        IsObject(Returned[i].value) =>
            \A j \in i..Len(Returned) : Returned[j].value = Returned[i].value

\* a configuration was loaded, the environment and both files were changed
\* afterwards to values that load differently, and load_config and
\* get_config were both called again
C23_Witness ==
    /\ Len(Returned) = 3
    /\ IsObject(Returned[1].value)
    /\ Returned[2].by = "load_config"
    /\ Returned[3].by = "get_config"
    /\ environ # config_calls.read.environ
    /\ config_yaml # config_calls.read.config_yaml
    /\ config_local_yaml # config_calls.read.config_local_yaml
    /\ LoadFresh(environ, config_yaml, config_local_yaml) # Raised
    /\ LoadFresh(environ, config_yaml, config_local_yaml).items
           # Returned[1].value.items

\* the text the environment read by the load gives to the setting's variable
ReadText(setting) == config_calls.read.environ[setting.env].value
IsSetWhenRead(setting) == IsSetIn(config_calls.read.environ, setting)

\* C24: when OLLAMA_TIMEOUT, OLLAMA_NUM_CTX or PORT is set to a text that
\* int() converts, 0 included, the loaded configuration holds that integer
\* for the setting.
C24_IntegerVariableIsLoaded ==
    HasLoaded =>
        \A setting \in IntSettings :
            (IsSetWhenRead(setting) /\ IsIntText(ReadText(setting))) =>
                LoadedAt(setting) = IntValue(IntOfText(ReadText(setting)))

\* what the YAML files alone give to a setting: None without a config
\* directory, else the local file's entry if it has one, else the base's
FromYaml(setting) ==
    IF ~FoundConfigDir THEN None
    ELSE IF InLocal(setting) THEN LocalAt(setting)
    ELSE BaseAt(setting)

\* C30: when OLLAMA_TIMEOUT, OLLAMA_NUM_CTX or PORT is set to a text that
\* int() does not convert, the setting keeps the value the YAML files give.
C30_UnparsableIntegerKeepsYaml ==
    HasLoaded =>
        \A setting \in IntSettings :
            (IsSetWhenRead(setting) /\ ~IsIntText(ReadText(setting))) =>
                LoadedAt(setting) = FromYaml(setting)

(***************************************************************************)
(* Properties of the endpoints, continued                                  *)
(***************************************************************************)
\* the intents the semantic validator's classifier names
ValidatorIntents ==
    {"lookup_by_name", "lookup_state", "count", "list", "aggregate",
     "compare", "rank", "general"}

\* C25: every response of /generate_sql or /repair_sql that carries
\* generated SQL reports an intent among lookup_by_name, lookup_state,
\* count, list, aggregate, compare, rank and general.
C25_IntentIsOfTheValidatorSet ==
    (pc = "done" /\ response.sql_generated # EmptySql) =>
        response.intent \in ValidatorIntents

\* the LLM's answer to call i is a text with 10 or more "(" or 5 or more "["
ManyParensOrBrackets(reply) ==
    /\ reply.kind = "text"
    /\ reply.text.parens >= MaxParens \/ reply.text.brackets >= MaxBrackets

\* C26: in single-candidate generation (HridaClient.generate_sql, as both
\* endpoints call it) a model output with 10 or more "(" or 5 or more "[" is
\* never the SQL of the response, and when it answers the request's first
\* LLM call the request ends in a generation error.
C26_ManyParensIsGibberish ==
    pc = "done" =>
        \A i \in 1..Len(llm_replies) :
            ManyParensOrBrackets(llm_replies[i]) =>
                /\ response.sql_generated # EnsureSemicolon(llm_replies[i].text)
                /\ i = 1 => response.error.type = "generation"

\* C27: every request that was received is one a handler takes (GenerateSql
\* or RepairSql is enabled, whatever the LLM answers) and the handler ends
\* with one response; a /generate_sql request has then made at most two
\* LLM generation calls, the second one only as the semantic repair of a
\* first SQL with error-severity issues, and a /repair_sql request at most
\* one.
C27_AtMostTwoGenerations ==
    /\ pc = "received" =>
        /\ request.endpoint \in {"generate_sql", "repair_sql"}
        /\ LlmReplies # {}
    /\ pc = "done" =>
        /\ response # NoResponse
        /\ request.endpoint = "generate_sql" =>
              /\ Len(llm_calls) <= 2
              /\ Len(llm_calls) = 2 =>
                    /\ FirstSqlInvalid
                    /\ DeltasOf(llm_calls[2], "REPAIR_DELTA_SEMANTIC") # {}
        /\ request.endpoint = "repair_sql" => Len(llm_calls) <= 1

\* a /generate_sql request returned the SQL of its semantic repair, which
\* still has an error-severity issue and was not repaired again
C27_Witness ==
    /\ Answered("generate_sql")
    /\ Len(llm_calls) = 2
    /\ Len(attempts) = 2
    /\ response.sql_generated = attempts[2].sql
    /\ ~SemanticValid(request.question, attempts[2].sql)

\* the second generation succeeded and its SQL is semantically valid or has
\* strictly fewer error-severity issues than the first SQL
RepairImproved ==
    /\ Len(attempts) = 2
    /\ \/ SemanticValid(request.question, attempts[2].sql)
       \/ Len(ErrorIssues(SemanticIssues(request.question, attempts[2].sql)))
            < Len(ErrorIssues(SemanticIssues(request.question,
                                             attempts[1].sql)))

\* C28: when the first SQL of a /generate_sql request has an error-severity
\* semantic issue (so that the repair is attempted), the response holds the
\* repaired SQL only if the repair improved on it, and in every other case,
\* a failed repair generation included, it holds the first SQL unchanged
\* with no error.
C28_RepairAdoptedOnlyIfImproved ==
    FirstSqlInvalid =>
        /\ response.sql_generated # attempts[1].sql =>
              /\ RepairImproved
              /\ response.sql_generated = attempts[2].sql
        /\ ~RepairImproved =>
              /\ response.sql_generated = attempts[1].sql
              /\ response.error = NoError

(***************************************************************************)
(* Properties of multi-candidate generation, continued                     *)
(***************************************************************************)
\* the requests whose SQL must be kept: request i succeeded and no request
\* of lower index succeeded with the same lowercase, whitespace-collapsed
\* SQL
KeptRequests ==
    {i \in SucceededRequests :
        \A j \in SucceededRequests :
            j < i => LowerCollapsed(OllamaOutcome(cand_call.replies[j]).sql)
                        # LowerCollapsed(OllamaOutcome(cand_call.replies[i]).sql)}

\* the n-th smallest element of a set of numbers
NthOf(S, n) == CHOOSE i \in S : Cardinality({j \in S : j < i}) = n - 1

\* C29: generate_candidates_parallel returns its candidates in ascending
\* order of the index i of the request (seed base_seed + i) that produced
\* them, whatever the order in which the k requests completed, and of the
\* requests with the same normalized SQL it keeps the one of lowest index.
C29_CandidatesInRequestOrder ==
    (cand_call.mode = "parallel" /\ cand_return.status = "returned") =>
        /\ Len(cand_return.candidates) = Cardinality(KeptRequests)
        /\ \A n \in 1..Len(cand_return.candidates) :
              LET outcome ==
                      OllamaOutcome(cand_call.replies[NthOf(KeptRequests, n)])
              IN  cand_return.candidates[n] =
                      [sql |-> outcome.sql, confidence |-> outcome.confidence]

\* request 2 completed before request 1, the two gave different strings of
\* the same normalized form, and the string of request 1 came back
C29_Witness ==
    /\ cand_call.mode = "parallel"
    /\ cand_return.status = "returned"
    /\ cand_return.settled = <<2, 1>>
    /\ SucceededRequests = {1, 2}
    /\ KeptRequests = {1}
    /\ OllamaOutcome(cand_call.replies[1]).sql
           # OllamaOutcome(cand_call.replies[2]).sql
    /\ Len(cand_return.candidates) = 1
    /\ cand_return.candidates[1].sql = OllamaOutcome(cand_call.replies[1]).sql

====
